---- MODULE Spec2Model ----
(***************************************************************************)
(* llms-generator: the chunk builder (chunker.py), the URL filter          *)
(* (sitemap.py), link extraction (fetcher.py), the extraction call         *)
(* (extractor.py) and the parallel extraction coordinator (main.py).       *)
(*                                                                         *)
(* Strings are sequences of one-character strings, so that strip, split,   *)
(* startswith, glob matching and lexicographic order are computed.  A URL  *)
(* is <<host, c1, c2, ...>>: its first element is the netloc, the rest is  *)
(* the path; the scheme (always http) is left out.                         *)
(***************************************************************************)
EXTENDS Integers, Sequences, FiniteSets, TLC

VARIABLES
    \* ---- create_chunks (chunker.py): inputs
    chunk_method, chunk_size, url, html, text,
    include_pattern, exclude_pattern, content_selector, sitemap,
    \* ---- create_chunks: the running call
    cpc,        \* "call", "fetch", "done", "raised"
    chunks,     \* the chunk list being built
    todo,       \* the URLs the strategy's fetch loop iterates over
    pos,        \* 1-based position in todo of the next fetch
    fetchLog,   \* every fetch_page call made so far: <<url, ok>>
    internal_links, \* chunk_recursive: the links left after filtering
    \* ---- the extraction step of cli (main.py): inputs
    in_n, parallel, dry_run, workers, batch_size, MAX_RETRIES, project_set,
    \* ---- the extraction step: the running step
    mpc,        \* position of the main thread
    results,    \* process_chunks_parallel: results; sequential path: extractions
    batch_start,
    queue,      \* work items submitted to the executor and not yet started
    call,       \* per chunk index: the state of its extract_with_ai call
    collected,  \* the indices of the batch the as_completed loop has handled, in order
    genai_client, \* _genai_client: 0 is None, else the number of the instance
    clients_made, \* how many genai.Client instances were constructed
    ledger,     \* UsageTracker.sources[source_id]: [calls, prompt, completion]
    sleeps,     \* pacing delays performed so far
    \* ---- parse_sitemap (sitemap.py)
    docs,       \* what requests.get gives for each sitemap URL
    spc,        \* "idle", "run", "done", "raised"
    stack,      \* the frames of the nested parse_sitemap calls, innermost last
    sresult,    \* the list the outermost call returned
    \* ---- merge_extractions (extractor.py)
    extractions, source_id,
    gpc,        \* "idle", "call", "done"
    merged,     \* the string returned
    \* ---- cli (main.py): the loop over the sources and the end of the run
    rows,       \* the rows of sources.csv: [id, enabled]
    only_list,  \* the ids of --only, or None
    output_exists,    \* the output directory exists
    source_list,
    lpc,        \* position of cli
    source_pos, \* 1-based position in source_list of the source in process
    attempted,  \* ids of the sources whose processing began, in order
    failed,     \* ids of the sources whose processing raised
    index_attempted,  \* save_index was called
    index_saved,      \* save_index returned
    usage_reported,   \* tracker.print_summary() was called
    client_closed,    \* close_genai_client() was called
    site_about,       \* SITE_ABOUT_URL is set and SITE_DESCRIPTION is not
    service_called,   \* client.models.generate_content was called in this run
    \* ---- fetch_page and the rate limiter (fetcher.py)
    rate_limit_delay,  \* _rate_limit_delay, in seconds
    now,               \* time.time()
    last_request_time, \* _last_request_time: 0 before the first request returned
    fcache,     \* per cache key: None, or the html and text of the cache file
    fcall,      \* the fetch_page call: its arguments and its position
    fret,       \* how the last fetch_page call ended
    ncalls,     \* fetch_page calls made so far
    requests_made, \* HTTP requests sent so far
    sent,       \* the times at which the last two requests were sent
    \* ---- the prompt of extract_with_ai (extractor.py)
    prompt_template, raw_content,
    max_content_length, \* config["max_content_length"]
    ppc,        \* "idle", "call", "sent"
    sent_prompt,  \* the prompt given to generate_content
    truncated

cvars == <<chunk_method, chunk_size, url, html, text, include_pattern,
           exclude_pattern, content_selector, sitemap, cpc, chunks, todo, pos,
           fetchLog, internal_links>>

mvars == <<in_n, parallel, dry_run, workers, batch_size, MAX_RETRIES,
           project_set, mpc, results, batch_start, queue, call, collected,
           genai_client, clients_made, ledger, sleeps>>

svars == <<docs, spc, stack, sresult>>

gvars == <<extractions, source_id, gpc, merged>>

lvars == <<rows, only_list, output_exists, source_list, lpc, source_pos, attempted, failed,
           index_attempted, index_saved, usage_reported, client_closed,
           site_about, service_called>>

fvars == <<rate_limit_delay, now, last_request_time, fcache, fcall, fret, ncalls,
           requests_made, sent>>

pvars == <<prompt_template, raw_content, max_content_length, ppc, sent_prompt, truncated>>

vars == <<cvars, mvars, svars, gvars, lvars, fvars, pvars>>

\* what a step of one part leaves alone: the variables of the other parts
notChunk == <<mvars, svars, gvars, lvars, fvars, pvars>>
notExtract == <<cvars, svars, gvars, lvars, fvars, pvars>>
notSitemap == <<cvars, mvars, gvars, lvars, fvars, pvars>>
notMerge == <<cvars, mvars, svars, lvars, fvars, pvars>>
notCli == <<cvars, mvars, svars, gvars, fvars, pvars>>
notFetch == <<cvars, mvars, svars, gvars, lvars, pvars>>
notPrompt == <<cvars, mvars, svars, gvars, lvars, fvars>>

\* None, for an optional string argument: the code reads such an argument only
\* through its truth value, which None and "" share
None == <<>>

\* parse_sitemap is not running
SitemapIdle == docs = <<>> /\ spc = "idle" /\ stack = <<>> /\ sresult = <<>>

\* merge_extractions is not running
MergeIdle == extractions = <<>> /\ source_id = <<>> /\ gpc = "idle" /\ merged = <<>>

\* the loop of cli over the sources is not running
CliIdle ==
    /\ rows = <<>> /\ only_list = None /\ output_exists = FALSE
    /\ source_list = <<>> /\ lpc = "idle"
    /\ source_pos = 1 /\ attempted = <<>> /\ failed = {}
    /\ index_attempted = FALSE /\ index_saved = FALSE
    /\ usage_reported = FALSE /\ client_closed = FALSE
    /\ site_about = FALSE /\ service_called = FALSE

\* fetch_page is not running
FetchIdle ==
    /\ rate_limit_delay = 1 /\ now = 1 /\ last_request_time = 0
    /\ fcache = <<>> /\ fcall = <<>> /\ fret = <<>>
    /\ ncalls = 0 /\ requests_made = 0 /\ sent = <<>>

\* no prompt is being built
PromptIdle ==
    /\ prompt_template = <<>> /\ raw_content = <<>> /\ max_content_length = 0
    /\ ppc = "idle" /\ sent_prompt = <<>> /\ truncated = FALSE

(***************************************************************************)
(* Bounds of the model                                                     *)
(***************************************************************************)
\* lines of the page text
MaxLines == 3
\* anchors of the page markup, URLs of the sitemap
MaxLinks == 3
\* largest chunk_size tried (the smallest is -1)
MaxSize == 3
\* chunks handed to the extraction step
MaxChunks == 3
\* largest --workers tried
MaxWorkers == 2
\* largest API_MAX_RETRIES tried
MaxRetries == 2
\* loc elements of one sitemap document
MaxLocs == 2
\* rows of sources.csv
MaxSources == 3
\* nested parse_sitemap calls the interpreter allows (Python's recursion limit)
RecursionLimit == 3
\* fetch_page calls of a run
MaxFetches == 3
\* the clock stops ticking at this time (sleeping may pass it)
MaxTime == 4
\* largest rate-limit delay tried, in seconds
MaxDelay == 2
\* characters of the prompt template before the placeholder
MaxTemplate == 2
\* characters of the content
MaxContent == 12
\* largest max_content_length tried
MaxLength == 24

(***************************************************************************)
(* Strings                                                                 *)
(***************************************************************************)
\* ord(c) for the characters that occur in URLs
Code(c) ==
    CASE c = "/" -> 47 [] c = "0" -> 48 [] c = "1" -> 49 [] c = "2" -> 50
      [] c = "a" -> 97 [] c = "b" -> 98 [] c = "c" -> 99 [] c = "g" -> 103
      [] c = "h" -> 104 [] c = "p" -> 112 [] OTHER -> 0

RECURSIVE LexLess(_, _)
\* s < t for Python strings
LexLess(s, t) ==
    IF t = <<>> THEN FALSE
    ELSE IF s = <<>> THEN TRUE
    ELSE IF Head(s) = Head(t) THEN LexLess(Tail(s), Tail(t))
    ELSE Code(Head(s)) < Code(Head(t))

RECURSIVE Sorted(_)
\* sorted(S) for a set of strings
Sorted(S) ==
    IF S = {} THEN <<>>
    ELSE LET m == CHOOSE x \in S : \A y \in S \ {x} : LexLess(x, y)
         IN  <<m>> \o Sorted(S \ {m})

\* s[:k] with Python's meaning of a negative k
SliceTo(s, k) ==
    LET n == Len(s)
        e == IF k >= 0 THEN (IF k < n THEN k ELSE n)
                       ELSE (IF n + k > 0 THEN n + k ELSE 0)
    IN  SubSeq(s, 1, e)

StartsWith(s, p) == Len(p) <= Len(s) /\ SubSeq(s, 1, Len(p)) = p

RECURSIVE RStrip(_, _)
\* s.rstrip(c)
RStrip(s, c) ==
    IF s # <<>> /\ s[Len(s)] = c THEN RStrip(SubSeq(s, 1, Len(s) - 1), c) ELSE s

RECURSIVE LStrip(_, _)
LStrip(s, c) == IF s # <<>> /\ Head(s) = c THEN LStrip(Tail(s), c) ELSE s

\* s.strip() where the only whitespace character is " "
Strip(s) == RStrip(LStrip(s, " "), " ")

\* c.upper()
Upper(c) == CASE c = "a" -> "A" [] c = "b" -> "B" [] OTHER -> c

\* c.isalpha()
IsAlpha(c) == c \in {"a", "b", "A", "B"}

RECURSIVE JoinNL(_)
\* "\n".join(lines)
JoinNL(lines) ==
    IF lines = <<>> THEN <<>>
    ELSE IF Len(lines) = 1 THEN lines[1]
    ELSE lines[1] \o <<"\n">> \o JoinNL(Tail(lines))

RECURSIVE Split(_, _, _)
\* s.split(sep) for a one-character sep, cur being the piece read so far
Split(s, sep, cur) ==
    IF s = <<>> THEN <<cur>>
    ELSE IF Head(s) = sep THEN <<cur>> \o Split(Tail(s), sep, <<>>)
    ELSE Split(Tail(s), sep, Append(cur, Head(s)))

RECURSIVE fnmatch(_, _)
\* fnmatch.fnmatch(s, p) for patterns of literals, "*" and "?"
fnmatch(s, p) ==
    IF p = <<>> THEN s = <<>>
    ELSE IF Head(p) = "*"
         THEN fnmatch(s, Tail(p)) \/ (s # <<>> /\ fnmatch(Tail(s), p))
    ELSE IF Head(p) = "?" THEN s # <<>> /\ fnmatch(Tail(s), Tail(p))
    ELSE s # <<>> /\ Head(s) = Head(p) /\ fnmatch(Tail(s), Tail(p))

RECURSIVE Dedup(_, _)
\* list(dict.fromkeys(s)), seen being the keys met so far
Dedup(s, seen) ==
    IF s = <<>> THEN <<>>
    ELSE IF Head(s) \in seen THEN Dedup(Tail(s), seen)
    ELSE <<Head(s)>> \o Dedup(Tail(s), seen \cup {Head(s)})

Range(s) == {s[i] : i \in 1..Len(s)}

\* an optional string argument is truthy: neither None nor ""
Truthy(p) == p # <<>>

SeqsUpTo(S, n) == UNION {[1..k -> S] : k \in 0..n}

Min(a, b) == IF a < b THEN a ELSE b
Max(a, b) == IF a > b THEN a ELSE b

(***************************************************************************)
(* URLs, markup, text: the inputs of create_chunks                         *)
(***************************************************************************)
\* urlparse(u).netloc and urlparse(u).path
Netloc(u) == Head(u)
Path(u) == Tail(u)

\* the URL as the string the glob patterns are matched against
UrlString(u) == <<"http:", "/", "/">> \o u

RootUrl == <<"h", "/", "a", "/">>

\* An anchor of the markup: abs is urljoin(url, href); pagination says that one
\* of the pagination selectors selects it and its href holds "page" or ends in
\* a number; inContent says that it lies inside the element content_selector
\* selects; http says that abs starts with http:// or https://.
Anchor(abs, pagination, inContent, http) ==
    [abs |-> abs, pagination |-> pagination, inContent |-> inContent, http |-> http]

\* the anchors tried on a paginated page: the root itself, two pagination
\* links, and a link that is no pagination link
PaginatedAnchors ==
    { Anchor(RootUrl, TRUE, TRUE, TRUE),
      Anchor(<<"h", "/", "a", "/", "p", "2">>, TRUE, FALSE, TRUE),
      Anchor(<<"h", "/", "a", "/", "p", "1", "0">>, TRUE, FALSE, TRUE),
      Anchor(<<"h", "/", "a", "/", "b">>, FALSE, TRUE, TRUE) }

\* the anchors tried on a recursive page: the root itself, a page under the
\* root, a page outside it, a page of another host, a page under the root and
\* outside the content element, and an ftp:// link to the same host
RecursiveAnchors ==
    { Anchor(RootUrl, FALSE, TRUE, TRUE),
      Anchor(<<"h", "/", "a", "/", "b">>, FALSE, TRUE, TRUE),
      Anchor(<<"h", "/", "a", "b">>, FALSE, TRUE, TRUE),
      Anchor(<<"g", "/", "a", "/", "b">>, FALSE, TRUE, TRUE),
      Anchor(<<"h", "/", "a", "/", "p", "2">>, FALSE, FALSE, TRUE),
      Anchor(<<"h", "/", "a", "/", "f">>, FALSE, TRUE, FALSE) }

Htmls(method) ==
    CASE method = "paginated" -> SeqsUpTo(PaginatedAnchors, MaxLinks)
      [] method = "recursive" -> SeqsUpTo(RecursiveAnchors, MaxLinks)
      [] OTHER -> {<<>>}

\* text.split("\n"): the page text is given by its lines
RawLines ==
    { <<>>, <<" ">>, <<" ", "a">>, <<"A", " ">>, <<"a", "b">>, <<"b">>, <<"1">> }

Texts == SeqsUpTo(RawLines, MaxLines) \ {<<>>}

OneLineTexts == {<<l>> : l \in {<<>>, <<"a", "b">>}}

\* the text is not the empty string
NonEmptyText(t) == t # << <<>> >>

IncludePatterns == {None, <<"*", "/", "a", "b", " ", "|", "*", "/", "b">>}
ExcludePatterns == {None, <<"*", "p", "2", "|", "*", "a", "b">>}
Selectors == {None, <<".main">>}

SitemapUrls ==
    { <<"h", "/", "a", "/", "b">>, <<"h", "/", "a", "b">>, <<"h", "/", "a", "/", "p", "2">> }

\* what parse_sitemap(url) gives: it raises, or returns a list of URLs
SitemapResults ==
    {[ok |-> FALSE, urls |-> <<>>]}
        \cup {[ok |-> TRUE, urls |-> us] : us \in SeqsUpTo(SitemapUrls, MaxLinks)}

Methods == {"single", "paginated", "alphabetical", "recursive", "sitemap", "other"}

\* the text fetch_page returns for page u
PageText(u) == <<"text of">> \o u

(***************************************************************************)
(* sitemap.py: filter_urls;  fetcher.py: extract_links                     *)
(***************************************************************************)
\* [p.strip() for p in pattern.split("|")]
Patterns(pattern) ==
    LET parts == Split(pattern, "|", <<>>)
    IN  [i \in 1..Len(parts) |-> Strip(parts[i])]

AnyMatch(u, pattern) ==
    \E i \in 1..Len(Patterns(pattern)) : fnmatch(UrlString(u), Patterns(pattern)[i])

\* a variant in which a URL that matches an include alternative is kept
\* whatever the exclude pattern says
filter_urls_include_wins(urls, include, exclude) ==
    LET Inc(u) == AnyMatch(u, include)
        NotExc(u) == ~AnyMatch(u, exclude)
    IN  IF Truthy(include) THEN SelectSeq(urls, Inc)
        ELSE IF Truthy(exclude) THEN SelectSeq(urls, NotExc) ELSE urls

filter_urls(urls, include, exclude) ==
    LET Inc(u) == AnyMatch(u, include)
        NotExc(u) == ~AnyMatch(u, exclude)
        r1 == IF Truthy(include) THEN SelectSeq(urls, Inc) ELSE urls
    IN  IF Truthy(exclude) THEN SelectSeq(r1, NotExc) ELSE r1

extract_links(h, base_url, selector) ==
    LET InContainer(a) == (Truthy(selector) => a.inContent) /\ a.http
        kept == SelectSeq(h, InContainer)
    IN  Dedup([i \in 1..Len(kept) |-> kept[i].abs], {})

(***************************************************************************)
(* chunker.py                                                              *)
(***************************************************************************)
Chunk(id, u, content, metadata) ==
    [id |-> id, url |-> u, content |-> content, metadata |-> metadata]

\* the text as the string it is: its lines joined by "\n"
chunk_single(t, u) ==
    << Chunk(<<"full">>, u, JoinNL(t), [type |-> "single"]) >>

\* ---- chunk_alphabetical
letter_range(letters) ==
    IF Len(letters) > 1 THEN <<letters[1], "-", letters[Len(letters)]>>
    ELSE <<letters[1]>>

AlphaChunk(range, lines, u) ==
    Chunk(range, u, JoinNL(lines), [type |-> "alphabetical", letters |-> range])

\* the boundary test of the loop: the open chunk is saved before this line
AlphaBoundary(st, first_char, size) ==
    IsAlpha(first_char) /\ st.items >= size /\ st.cur # <<>>

\* one iteration of the loop over the lines; letters[0] of an empty list raises
AlphaStep(st, raw, size, u) ==
    LET line == Strip(raw) IN
    IF st.raised \/ line = <<>> THEN st
    ELSE
      LET first_char == Upper(line[1])
          flush == AlphaBoundary(st, first_char, size)
      IN  IF flush /\ st.letters = <<>> THEN [st EXCEPT !.raised = TRUE]
          ELSE
            LET s1 == IF flush
                      THEN [st EXCEPT
                              !.chunks = Append(@, AlphaChunk(letter_range(st.letters), st.cur, u)),
                              !.cur = <<>>, !.letters = <<>>, !.items = 0]
                      ELSE st
                s2 == IF IsAlpha(first_char) /\ first_char \notin Range(s1.letters)
                      THEN [s1 EXCEPT !.letters = Append(@, first_char)]
                      ELSE s1
            IN  [s2 EXCEPT !.cur = Append(@, line), !.items = @ + 1]

RECURSIVE AlphaLoop(_, _, _, _)
AlphaLoop(st, lines, size, u) ==
    IF lines = <<>> THEN st
    ELSE AlphaLoop(AlphaStep(st, Head(lines), size, u), Tail(lines), size, u)

\* [raised |-> the call raised IndexError, chunks |-> what it returns otherwise]
chunk_alphabetical(t, u, size) ==
    LET st == AlphaLoop([chunks |-> <<>>, cur |-> <<>>, letters |-> <<>>,
                         items |-> 0, raised |-> FALSE], t, size, u)
        last == IF st.letters = <<>> THEN <<"misc">> ELSE letter_range(st.letters)
        all == IF st.cur # <<>>
               THEN Append(st.chunks, AlphaChunk(last, st.cur, u))
               ELSE st.chunks
    IN  [raised |-> st.raised,
         chunks |-> IF st.raised THEN <<>>
                    ELSE IF all # <<>> THEN all ELSE chunk_single(t, u)]

\* ---- chunk_paginated
page_urls(h, u) == {h[i].abs : i \in {j \in 1..Len(h) : h[j].pagination /\ h[j].abs # u}}

\* a variant that takes chunk_size links instead of chunk_size - 1
paginated_todo_size(h, u, size) == SliceTo(Sorted(page_urls(h, u)), size)

paginated_todo(h, u, size) == SliceTo(Sorted(page_urls(h, u)), size - 1)

\* ---- chunk_recursive
max_depth == 2

\* a variant that does not drop the link to the root itself
internal_only_with_root(h, u, selector) ==
    LET base_domain == Netloc(u)
        Internal(link) == Netloc(link) = base_domain
    IN  SelectSeq(extract_links(h, u, selector), Internal)

internal_only(h, u, selector) ==
    LET base_domain == Netloc(u)
        Internal(link) == Netloc(link) = base_domain /\ link # u
    IN  SelectSeq(extract_links(h, u, selector), Internal)

\* a variant that applies the default path filter also under a content selector
filtered_links_path_always(h, u, selector, include, exclude) ==
    LET base_path == RStrip(Path(u), "/")
        UnderRoot(link) == \/ StartsWith(Path(link), base_path \o <<"/">>)
                           \/ Path(link) = base_path
        internal == internal_only(h, u, selector)
    IN  IF Truthy(include) \/ Truthy(exclude)
        THEN filter_urls(internal, include, exclude)
        ELSE SelectSeq(internal, UnderRoot)

filtered_links(h, u, selector, include, exclude) ==
    LET base_path == RStrip(Path(u), "/")
        UnderRoot(link) == \/ StartsWith(Path(link), base_path \o <<"/">>)
                           \/ Path(link) = base_path
        internal == internal_only(h, u, selector)
    IN  IF Truthy(include) \/ Truthy(exclude)
        THEN filter_urls(internal, include, exclude)
        ELSE IF ~Truthy(selector) THEN SelectSeq(internal, UnderRoot)
        ELSE internal

recursive_todo(links, size) == SliceTo(links, size - 1)

\* ---- chunk_sitemap
\* a variant that slices whatever the sign of chunk_size
sitemap_todo_sliced(urls, size, include, exclude) ==
    SliceTo(filter_urls(urls, include, exclude), size)

sitemap_todo(urls, size, include, exclude) ==
    LET filtered == filter_urls(urls, include, exclude)
    IN  IF size > 0 THEN SliceTo(filtered, size) ELSE filtered

\* the chunk appended after the fetch of todo[pos] succeeded
FetchedChunk(method, link, position, have) ==
    CASE method = "paginated" ->
           Chunk(<<"page", position + 1>>, link, PageText(link),
                 [type |-> "paginated", page |-> position + 1])
      [] method = "recursive" ->
           Chunk(<<have>>, link, PageText(link), [type |-> "recursive", depth |-> 1])
      [] OTHER ->
           Chunk(<<position - 1>>, link, PageText(link),
                 [type |-> "sitemap", index |-> position - 1])

(***************************************************************************)
(* create_chunks as a process: the dispatch, then one step per fetch_page  *)
(***************************************************************************)
\* the extraction step is not running (dry_run is the --dry-run flag of cli)
MainCoreIdle ==
    /\ in_n = 0 /\ parallel = FALSE /\ workers = 0
    /\ batch_size = 0 /\ MAX_RETRIES = 0
    /\ mpc = "idle" /\ results = <<>> /\ batch_start = 0 /\ queue = <<>>
    /\ call = <<>> /\ collected = <<>> /\ genai_client = 0 /\ clients_made = 0
    /\ ledger = [calls |-> 0, prompt |-> 0, completion |-> 0]
    /\ sleeps = 0

MainRestIdle == project_set = FALSE /\ MainCoreIdle

MainIdle == dry_run = FALSE /\ MainRestIdle

InitChunk ==
    /\ chunk_method \in Methods
    /\ chunk_size \in (0 - 1)..MaxSize
    /\ url = RootUrl
    /\ text \in IF chunk_method = "alphabetical" THEN Texts ELSE OneLineTexts
    /\ html \in Htmls(chunk_method)
    /\ include_pattern \in IF chunk_method \in {"recursive", "sitemap"}
                           THEN IncludePatterns ELSE {None}
    /\ exclude_pattern \in IF chunk_method \in {"recursive", "sitemap"}
                           THEN ExcludePatterns ELSE {None}
    /\ content_selector \in IF chunk_method = "recursive" THEN Selectors ELSE {None}
    /\ sitemap \in IF chunk_method = "sitemap" THEN SitemapResults
                   ELSE {[ok |-> TRUE, urls |-> <<>>]}
    /\ cpc = "call" /\ chunks = <<>> /\ todo = <<>> /\ pos = 1 /\ fetchLog = <<>>
    /\ internal_links = <<>>
    /\ MainIdle /\ SitemapIdle /\ MergeIdle /\ CliIdle /\ FetchIdle /\ PromptIdle

cinputs == <<chunk_method, chunk_size, url, html, text, include_pattern,
             exclude_pattern, content_selector, sitemap>>

\* the strategy returns without a fetch loop
Return(cs) ==
    /\ chunks' = cs
    /\ cpc' = "done"
    /\ UNCHANGED <<todo, pos, fetchLog, internal_links, cinputs, notChunk>>

\* the strategy enters its fetch loop over links, having the chunks cs
Loop(cs, links) ==
    /\ chunks' = cs
    /\ todo' = links
    /\ cpc' = IF links = <<>> THEN "done" ELSE "fetch"
    /\ UNCHANGED <<pos, fetchLog, cinputs, notChunk>>

LoopOnly(cs, links) == Loop(cs, links) /\ UNCHANGED internal_links

CreateSingle ==
    /\ cpc = "call" /\ chunk_method = "single"
    /\ Return(chunk_single(text, url))

CreateUnknown ==
    /\ cpc = "call"
    /\ chunk_method \notin {"single", "paginated", "alphabetical", "recursive", "sitemap"}
    /\ Return(chunk_single(text, url))

CreateAlphabetical ==
    /\ cpc = "call" /\ chunk_method = "alphabetical"
    /\ LET r == chunk_alphabetical(text, url, chunk_size)
       IN  /\ chunks' = r.chunks
           /\ cpc' = IF r.raised THEN "raised" ELSE "done"
    /\ UNCHANGED <<todo, pos, fetchLog, internal_links, cinputs, notChunk>>

CreatePaginated ==
    /\ cpc = "call" /\ chunk_method = "paginated"
    /\ LoopOnly(<< Chunk(<<"page", 1>>, url, JoinNL(text), [type |-> "paginated", page |-> 1]) >>,
            paginated_todo(html, url, chunk_size))

CreateRecursive ==
    /\ cpc = "call" /\ chunk_method = "recursive"
    /\ LET root == << Chunk(<<"root">>, url, JoinNL(text), [type |-> "recursive", depth |-> 0]) >>
           links == filtered_links(html, url, content_selector,
                                   include_pattern, exclude_pattern)
       IN  IF max_depth < 1 THEN Return(root)
           ELSE /\ internal_links' = links
                /\ Loop(root, recursive_todo(links, chunk_size))

CreateSitemap ==
    /\ cpc = "call" /\ chunk_method = "sitemap"
    /\ IF ~sitemap.ok
       THEN /\ cpc' = "raised"
            /\ UNCHANGED <<chunks, todo, pos, fetchLog, internal_links, cinputs, notChunk>>
       ELSE LoopOnly(<<>>, sitemap_todo(sitemap.urls, chunk_size, include_pattern, exclude_pattern))

\* a variant that also queues a link found on the fetched sub-page
FetchOkFollows ==
    /\ cpc = "fetch"
    /\ chunks' = Append(chunks, FetchedChunk(chunk_method, todo[pos], pos, Len(chunks)))
    /\ fetchLog' = Append(fetchLog, <<todo[pos], TRUE>>)
    /\ pos' = pos + 1
    /\ todo' = IF chunk_method = "recursive" /\ pos <= Len(internal_links)
               THEN Append(todo, todo[pos] \o <<"/", "sub">>) ELSE todo
    /\ cpc' = IF pos = Len(todo') THEN "done" ELSE "fetch"
    /\ UNCHANGED <<internal_links, cinputs, notChunk>>

\* the loop's next fetch_page call returns
FetchOk ==
    /\ cpc = "fetch"
    /\ chunks' = Append(chunks, FetchedChunk(chunk_method, todo[pos], pos, Len(chunks)))
    /\ fetchLog' = Append(fetchLog, <<todo[pos], TRUE>>)
    /\ pos' = pos + 1
    /\ cpc' = IF pos = Len(todo) THEN "done" ELSE "fetch"
    /\ UNCHANGED <<todo, internal_links, cinputs, notChunk>>

\* a variant in which a failed fetch ends the loop
FetchFailBreaks ==
    /\ cpc = "fetch"
    /\ fetchLog' = Append(fetchLog, <<todo[pos], FALSE>>)
    /\ pos' = pos + 1
    /\ cpc' = "done"
    /\ UNCHANGED <<chunks, todo, internal_links, cinputs, notChunk>>

\* the loop's next fetch_page call raises: a warning, and the loop goes on
FetchFail ==
    /\ cpc = "fetch"
    /\ fetchLog' = Append(fetchLog, <<todo[pos], FALSE>>)
    /\ pos' = pos + 1
    /\ cpc' = IF pos = Len(todo) THEN "done" ELSE "fetch"
    /\ UNCHANGED <<chunks, todo, internal_links, cinputs, notChunk>>

NextChunk ==
    \/ CreateSingle \/ CreateUnknown \/ CreateAlphabetical
    \/ CreatePaginated \/ CreateRecursive \/ CreateSitemap
    \/ FetchOk \/ FetchFail

SpecChunk == InitChunk /\ [][NextChunk]_vars

(***************************************************************************)
(* main.py, extractor.py: the extraction step of one source                *)
(***************************************************************************)
DEFAULT_BATCH_SIZE == 3

\* chunk.content of the chunk at index i: i + 1 characters
ChunkContent(i) == [j \in 1..(i + 1) |-> "x"]

\* prompt_template.replace("{content}", content), the template being "P{content}"
Prompt(content) == <<"P">> \o content

\* what the service answers to a prompt
ResponseText(prompt) == <<"answer to">> \o prompt

DryRunPlaceholder(content) == <<"# [DRY RUN]", "Would process", Len(content), "characters">>

\* f"# Error\n\nFailed to extract content: {e}"  (extract_with_ai)
ErrorPlaceholder(e) == <<"# Error", "Failed to extract content:", e>>

MaxRetriesExceeded == <<"# Error", "Max retries exceeded">>

\* f"# Error\n\nFailed to extract: {e}"  (process_chunks_parallel)
ErrorMarker(e) == <<"# Error", "Failed to extract:", e>>

\* the None that fills the result list before the calls end
PyNone == <<"None">>

NoOutcome == [kind |-> "none", value |-> <<>>]
Returns(v) == [kind |-> "returned", value |-> v]
Raises(e) == [kind |-> "raised", value |-> <<e>>]

\* a call of extract_with_ai: pc is "idle", "queued", "start", "create",
\* "attempt", "track" or "done"; attempt counts the loop; log lists how each call of
\* client.models.generate_content ended ("ok", "429", "fail"); out is how the
\* call of extract_with_ai ended
IdleCall ==
    [pc |-> "idle", content |-> <<>>, attempt |-> 0, log |-> <<>>, out |-> NoOutcome]

Indices == 0..(in_n - 1)

InFlight == {i \in Indices : call[i].pc \in {"start", "create", "attempt", "track"}}

batch_end == Min(batch_start + batch_size, in_n)

Batch == batch_start..(batch_end - 1)

\* create_chunks is not running
ChunkIdle ==
    /\ chunk_method = "single" /\ chunk_size = 0 /\ url = RootUrl /\ html = <<>>
    /\ text = << <<>> >> /\ include_pattern = None /\ exclude_pattern = None
    /\ content_selector = None /\ sitemap = [ok |-> TRUE, urls |-> <<>>]
    /\ cpc = "idle" /\ chunks = <<>> /\ todo = <<>> /\ pos = 1 /\ fetchLog = <<>>
    /\ internal_links = <<>>

\* the chunk counts tried: up to MaxChunks, and 7 chunks for a dry run in
\* batches of 3 with 2 workers
InitExtract ==
    /\ parallel \in BOOLEAN
    /\ dry_run \in BOOLEAN
    /\ workers \in 0..MaxWorkers
    /\ batch_size \in 1..DEFAULT_BATCH_SIZE
    /\ in_n \in (0..MaxChunks) \cup
                   (IF parallel /\ dry_run /\ workers = 2 /\ batch_size = 3
                    THEN {7} ELSE {})
    /\ MAX_RETRIES \in 0..MaxRetries
    /\ project_set \in BOOLEAN
    /\ mpc = "start"
    /\ results = <<>>
    /\ batch_start = 0
    /\ queue = <<>>
    /\ call = [i \in Indices |-> IdleCall]
    /\ collected = <<>>
    /\ genai_client = 0
    /\ clients_made = 0
    /\ ledger = [calls |-> 0, prompt |-> 0, completion |-> 0]
    /\ sleeps = 0
    /\ ChunkIdle /\ SitemapIdle /\ MergeIdle /\ CliIdle /\ FetchIdle /\ PromptIdle

minputs == <<in_n, parallel, dry_run, workers, batch_size, MAX_RETRIES, project_set>>

\* ---- cli: the choice of the path (main.py 240-251)
EnterParallel ==
    /\ mpc = "start" /\ parallel /\ in_n > 1
    /\ results' = [k \in 1..in_n |-> PyNone]
    /\ batch_start' = 0
    /\ mpc' = "batch"
    /\ UNCHANGED <<queue, call, collected, genai_client, clients_made, ledger,
                   sleeps, minputs, notExtract>>

EnterSequential ==
    /\ mpc = "start" /\ ~(parallel /\ in_n > 1)
    /\ results' = <<>>
    /\ mpc' = "seq"
    /\ UNCHANGED <<batch_start, queue, call, collected, genai_client, clients_made,
                   ledger, sleeps, minputs, notExtract>>

\* ---- process_chunks_parallel
\* ThreadPoolExecutor(max_workers=0) raises ValueError
PoolError ==
    /\ mpc = "batch" /\ workers <= 0
    /\ mpc' = "pool_error"
    /\ UNCHANGED <<results, batch_start, queue, call, collected, genai_client,
                   clients_made, ledger, sleeps, minputs, notExtract>>

\* the executor is created and one call per chunk of the batch is submitted
SubmitBatch ==
    /\ mpc = "batch" /\ workers > 0
    /\ queue' = [k \in 1..(batch_end - batch_start) |-> batch_start + k - 1]
    /\ call' = [i \in Indices |->
                  IF i \in Batch
                  THEN [IdleCall EXCEPT !.pc = "queued", !.content = ChunkContent(i)]
                  ELSE call[i]]
    /\ collected' = <<>>
    /\ mpc' = "wait"
    /\ UNCHANGED <<results, batch_start, genai_client, clients_made,
                   ledger, sleeps, minputs, notExtract>>

\* a variant in which a thread is started for every submitted call
WorkerTakeUnbounded ==
    /\ queue # <<>>
    /\ call' = [call EXCEPT ![Head(queue)].pc = "start"]
    /\ queue' = Tail(queue)
    /\ UNCHANGED <<mpc, results, batch_start, collected, genai_client, clients_made,
                   ledger, sleeps, minputs, notExtract>>

\* a free worker thread takes the oldest work item
WorkerTake ==
    /\ queue # <<>>
    /\ Cardinality(InFlight) < workers
    /\ call' = [call EXCEPT ![Head(queue)].pc = "start"]
    /\ queue' = Tail(queue)
    /\ UNCHANGED <<mpc, results, batch_start, collected, genai_client, clients_made,
                   ledger, sleeps, minputs, notExtract>>

\* a variant that leaves the slot of a failed call as it is
CollectValueUncaught(out) ==
    IF out.kind = "raised" THEN PyNone ELSE out.value

\* results[idx] = future.result(), or the error marker when it raises
CollectValue(out) ==
    IF out.kind = "raised" THEN ErrorMarker(out.value[1]) ELSE out.value

\* a variant that stores the results in the order of completion
StoreResultAsCompleted(res, idx, value, ncollected) ==
    [res EXCEPT ![ncollected + 1] = value]

\* results[idx] = value; the list index idx is position idx + 1 of the sequence
StoreResult(res, idx, value, ncollected) == [res EXCEPT ![idx + 1] = value]

\* one iteration of the as_completed loop
Collect(i) ==
    /\ mpc = "wait"
    /\ i \in Batch /\ call[i].pc = "done" /\ i \notin Range(collected)
    /\ results' = StoreResult(results, i, CollectValue(call[i].out),
                            batch_start + Len(collected))
    /\ collected' = Append(collected, i)
    /\ UNCHANGED <<mpc, batch_start, queue, call, genai_client, clients_made,
                   ledger, sleeps, minputs, notExtract>>

\* a variant in which the coordinator goes on after the first collected result
BatchCollectedAny == collected # <<>>

BatchCollected == Batch \subseteq Range(collected)

\* the batch is over and chunks remain: time.sleep(BATCH_DELAY), next batch
NextBatch ==
    /\ mpc = "wait" /\ BatchCollected /\ batch_end < in_n
    /\ sleeps' = sleeps + 1
    /\ batch_start' = batch_start + batch_size
    /\ mpc' = "batch"
    /\ UNCHANGED <<results, queue, call, collected, genai_client, clients_made,
                   ledger, minputs, notExtract>>

\* a variant that sleeps after the last batch too
ReturnResultsAfterSleep ==
    /\ mpc = "wait" /\ BatchCollected /\ batch_end >= in_n
    /\ sleeps' = sleeps + 1
    /\ mpc' = "returned"
    /\ UNCHANGED <<results, batch_start, queue, call, collected, genai_client,
                   clients_made, ledger, minputs, notExtract>>

\* the last batch is over: return results
ReturnResults ==
    /\ mpc = "wait" /\ BatchCollected /\ batch_end >= in_n
    /\ mpc' = "returned"
    /\ UNCHANGED <<results, batch_start, queue, call, collected, genai_client,
                   clients_made, ledger, sleeps, minputs, notExtract>>

\* ---- the sequential path (main.py 251-271)
SeqCall ==
    /\ mpc = "seq" /\ Len(results) < in_n
    /\ call[Len(results)].pc = "idle"
    /\ call' = [call EXCEPT ![Len(results)] =
                  [IdleCall EXCEPT !.pc = "start", !.content = ChunkContent(Len(results))]]
    /\ UNCHANGED <<mpc, results, batch_start, queue, collected, genai_client,
                   clients_made, ledger, sleeps, minputs, notExtract>>

\* extractions.append(extraction)
SeqAppend ==
    /\ mpc = "seq" /\ Len(results) < in_n
    /\ call[Len(results)].pc = "done" /\ call[Len(results)].out.kind = "returned"
    /\ results' = Append(results, call[Len(results)].out.value)
    /\ UNCHANGED <<mpc, batch_start, queue, call, collected, genai_client,
                   clients_made, ledger, sleeps, minputs, notExtract>>

\* the call raised: the exception leaves the loop for the handler of the source
SeqRaise ==
    /\ mpc = "seq" /\ Len(results) < in_n
    /\ call[Len(results)].pc = "done" /\ call[Len(results)].out.kind = "raised"
    /\ mpc' = "raised"
    /\ UNCHANGED <<results, batch_start, queue, call, collected, genai_client,
                   clients_made, ledger, sleeps, minputs, notExtract>>

SeqDone ==
    /\ mpc = "seq" /\ Len(results) = in_n
    /\ mpc' = "returned"
    /\ UNCHANGED <<results, batch_start, queue, call, collected, genai_client,
                   clients_made, ledger, sleeps, minputs, notExtract>>

\* ---- extract_with_ai, the call for the chunk at index i
Finish(i, outcome) == [call EXCEPT ![i].pc = "done", ![i].out = outcome]

\* a variant without the dry-run return
ExtractStartNoDryRun(i) ==
    /\ call[i].pc = "start"
    /\ call' = IF genai_client # 0 THEN [call EXCEPT ![i].pc = "attempt"]
               ELSE [call EXCEPT ![i].pc = "create"]
    /\ UNCHANGED <<mpc, results, batch_start, queue, collected, genai_client,
                   clients_made, ledger, sleeps, minputs, notExtract>>

\* lines 114-121: the dry-run return, or the read of _genai_client
ExtractStart(i) ==
    /\ call[i].pc = "start"
    /\ call' = IF dry_run THEN Finish(i, Returns(DryRunPlaceholder(call[i].content)))
               ELSE IF genai_client # 0 THEN [call EXCEPT ![i].pc = "attempt"]
               ELSE [call EXCEPT ![i].pc = "create"]
    /\ UNCHANGED <<mpc, results, batch_start, queue, collected, genai_client,
                   clients_made, ledger, sleeps, minputs, notExtract>>

\* get_genai_client found None: _get_config succeeds and the client is built
ExtractCreateClient(i) ==
    /\ call[i].pc = "create" /\ project_set
    /\ clients_made' = clients_made + 1
    /\ genai_client' = clients_made + 1
    /\ call' = [call EXCEPT ![i].pc = "attempt"]
    /\ UNCHANGED <<mpc, results, batch_start, queue, collected, ledger, sleeps, minputs, notExtract>>

\* get_genai_client found None and GOOGLE_CLOUD_PROJECT is not set: ValueError
ExtractConfigError(i) ==
    /\ call[i].pc = "create" /\ ~project_set
    /\ call' = Finish(i, Raises("GOOGLE_CLOUD_PROJECT environment variable is required"))
    /\ UNCHANGED <<mpc, results, batch_start, queue, collected, genai_client,
                   clients_made, ledger, sleeps, minputs, notExtract>>

\* get_genai_client found None and genai.Client(...) raises
ExtractClientError(i) ==
    /\ call[i].pc = "create" /\ project_set
    /\ call' = Finish(i, Raises("genai.Client failed"))
    /\ UNCHANGED <<mpc, results, batch_start, queue, collected, genai_client,
                   clients_made, ledger, sleeps, minputs, notExtract>>

\* SourceUsage(source_id=source_id), the entry before any call is added
NoUsage == [calls |-> 0, prompt |-> 0, completion |-> 0]

\* SourceUsage.add(prompt, completion, truncated) on the entry l
TrackerAdd(l, prompt_chars, completion_chars) ==
    [calls |-> l.calls + 1, prompt |-> l.prompt + prompt_chars,
     completion |-> l.completion + completion_chars]

\* generate_content answers and tracker.add tests 'source_id not in
\* self.sources' (no lock is held): with an entry the counts are added to it
\* and the text is returned, without one the thread goes on to make the entry
AttemptOk(i) ==
    /\ call[i].pc = "attempt" /\ call[i].attempt < MAX_RETRIES
    /\ LET prompt == Prompt(call[i].content)
           response_text == ResponseText(prompt)
       IN  IF ledger.calls > 0
           THEN /\ ledger' = TrackerAdd(ledger, Len(prompt), Len(response_text))
                /\ call' = [Finish(i, Returns(response_text))
                              EXCEPT ![i].log = Append(@, "ok")]
           ELSE /\ ledger' = ledger
                /\ call' = [call EXCEPT ![i].pc = "track", ![i].log = Append(@, "ok")]
    /\ UNCHANGED <<mpc, results, batch_start, queue, collected, genai_client,
                   clients_made, sleeps, minputs, notExtract>>

\* self.sources[source_id] = SourceUsage(...) by the thread that found no
\* entry: the new entry takes the place of whatever is stored by now, the
\* counts of this call are added to it and the text is returned
TrackerNewEntry(i) ==
    /\ call[i].pc = "track"
    /\ LET prompt == Prompt(call[i].content)
           response_text == ResponseText(prompt)
       IN  /\ ledger' = TrackerAdd(NoUsage, Len(prompt), Len(response_text))
           /\ call' = Finish(i, Returns(response_text))
    /\ UNCHANGED <<mpc, results, batch_start, queue, collected, genai_client,
                   clients_made, sleeps, minputs, notExtract>>

\* a variant that lets the exception of the last attempt out
AttemptRateLimitedRaises(i) ==
    /\ call[i].pc = "attempt" /\ call[i].attempt < MAX_RETRIES
    /\ call' = IF call[i].attempt < MAX_RETRIES - 1
               THEN [call EXCEPT ![i].attempt = @ + 1, ![i].log = Append(@, "429")]
               ELSE [Finish(i, Raises("429 RESOURCE_EXHAUSTED"))
                       EXCEPT ![i].log = Append(@, "429")]
    /\ UNCHANGED <<mpc, results, batch_start, queue, collected, genai_client,
                   clients_made, ledger, sleeps, minputs, notExtract>>

\* generate_content raises APIError 429: sleep and retry, or give up on the
\* last attempt
AttemptRateLimited(i) ==
    /\ call[i].pc = "attempt" /\ call[i].attempt < MAX_RETRIES
    /\ call' = IF call[i].attempt < MAX_RETRIES - 1
               THEN [call EXCEPT ![i].attempt = @ + 1, ![i].log = Append(@, "429")]
               ELSE [Finish(i, Returns(ErrorPlaceholder("429 RESOURCE_EXHAUSTED")))
                       EXCEPT ![i].log = Append(@, "429")]
    /\ UNCHANGED <<mpc, results, batch_start, queue, collected, genai_client,
                   clients_made, ledger, sleeps, minputs, notExtract>>

\* a variant that retries after any failure as after a rate limit
AttemptFailsRetried(i) ==
    /\ call[i].pc = "attempt" /\ call[i].attempt < MAX_RETRIES
    /\ call' = IF call[i].attempt < MAX_RETRIES - 1
               THEN [call EXCEPT ![i].attempt = @ + 1, ![i].log = Append(@, "fail")]
               ELSE [Finish(i, Returns(ErrorPlaceholder("message of the exception")))
                       EXCEPT ![i].log = Append(@, "fail")]
    /\ UNCHANGED <<mpc, results, batch_start, queue, collected, genai_client,
                   clients_made, ledger, sleeps, minputs, notExtract>>

\* generate_content raises another APIError, or any other Exception: both
\* handlers return the placeholder with the message of the exception
AttemptFails(i) ==
    /\ call[i].pc = "attempt" /\ call[i].attempt < MAX_RETRIES
    /\ call' = [Finish(i, Returns(ErrorPlaceholder("message of the exception")))
                  EXCEPT ![i].log = Append(@, "fail")]
    /\ UNCHANGED <<mpc, results, batch_start, queue, collected, genai_client,
                   clients_made, ledger, sleeps, minputs, notExtract>>

\* range(MAX_RETRIES) is empty: the return after the loop
NoAttempt(i) ==
    /\ call[i].pc = "attempt" /\ call[i].attempt >= MAX_RETRIES
    /\ call' = Finish(i, Returns(MaxRetriesExceeded))
    /\ UNCHANGED <<mpc, results, batch_start, queue, collected, genai_client,
                   clients_made, ledger, sleeps, minputs, notExtract>>

NextExtract ==
    \/ EnterParallel \/ EnterSequential
    \/ PoolError \/ SubmitBatch \/ WorkerTake
    \/ \E i \in Indices : Collect(i)
    \/ NextBatch \/ ReturnResults
    \/ SeqCall \/ SeqAppend \/ SeqRaise \/ SeqDone
    \/ \E i \in Indices : ExtractStart(i)
    \/ \E i \in Indices : ExtractCreateClient(i)
    \/ \E i \in Indices : ExtractConfigError(i)
    \/ \E i \in Indices : ExtractClientError(i)
    \/ \E i \in Indices : AttemptOk(i)
    \/ \E i \in Indices : TrackerNewEntry(i)
    \/ \E i \in Indices : AttemptRateLimited(i)
    \/ \E i \in Indices : AttemptFails(i)
    \/ \E i \in Indices : NoAttempt(i)

SpecExtract == InitExtract /\ [][NextExtract]_vars

(***************************************************************************)
(* sitemap.py: parse_sitemap, the nested calls as a stack of frames        *)
(***************************************************************************)
\* A sitemap document, as requests.get and ET.fromstring give it: ok is FALSE
\* when the request or the parse raises; sitemap_locs are the texts of the
\* ns:sitemap/ns:loc elements and url_locs those of the ns:url/ns:loc
\* elements, in document order; "" is an element without text.
Doc(ok, sitemap_locs, url_locs) ==
    [ok |-> ok, sitemap_locs |-> sitemap_locs, url_locs |-> url_locs]

PageUrls == {"a", "b"}

BrokenDoc == Doc(FALSE, <<>>, <<>>)

\* the documents tried at the URL given to parse_sitemap: an index that names
\* s1, s2, itself or nothing, or a plain sitemap
RootDocs ==
    {Doc(TRUE, sl, <<>>) : sl \in SeqsUpTo({"s1", "s2", "root", ""}, MaxLocs) \ {<<>>}}
        \cup {Doc(TRUE, <<>>, ul) : ul \in SeqsUpTo(PageUrls, MaxLocs)}

\* at s1: no document, an index of s2 that also holds a url element, or a
\* plain sitemap
S1Docs ==
    {BrokenDoc}
        \cup {Doc(TRUE, sl, <<"b">>) : sl \in SeqsUpTo({"s2"}, MaxLocs) \ {<<>>}}
        \cup {Doc(TRUE, <<>>, ul) : ul \in SeqsUpTo(PageUrls, MaxLocs)}

\* at s2: no document, or a plain sitemap
S2Docs ==
    {BrokenDoc} \cup {Doc(TRUE, <<>>, ul) : ul \in SeqsUpTo(PageUrls \cup {""}, MaxLocs)}

\* a call of parse_sitemap(sitemap_url): i = 0 before the document is read,
\* else the position in sitemap_locs of the loop
Frame(sitemap_url) == [sitemap_url |-> sitemap_url, i |-> 0, all_urls |-> <<>>]

Top == stack[Len(stack)]

TopDoc == docs[Top.sitemap_url]

\* lines 45-48: the texts of the url elements that have one
urlset_urls(d) == SelectSeq(d.url_locs, LAMBDA x : x # "")

\* a variant that leaves out the URLs already collected
extend_dedup(all_urls, sub) ==
    all_urls \o SelectSeq(sub, LAMBDA x : x \notin Range(all_urls))

\* all_urls.extend(parse_sitemap(loc.text, timeout))
extend(all_urls, sub) == all_urls \o sub

InitSitemap ==
    /\ docs \in [root : RootDocs, s1 : S1Docs, s2 : S2Docs]
    /\ spc = "run"
    /\ stack = <<Frame("root")>>
    /\ sresult = <<>>
    /\ ChunkIdle /\ MainIdle /\ MergeIdle /\ CliIdle /\ FetchIdle /\ PromptIdle

\* the innermost call returns v: to the caller's extend, or to the outside
SmReturn(v) ==
    IF Len(stack) = 1
    THEN /\ sresult' = v /\ spc' = "done" /\ stack' = <<>>
    ELSE /\ stack' = [SubSeq(stack, 1, Len(stack) - 1) EXCEPT
                        ![Len(stack) - 1].all_urls = extend(@, v),
                        ![Len(stack) - 1].i = @ + 1]
         /\ UNCHANGED <<sresult, spc>>

\* an exception: parse_sitemap has no handler, every frame is left
SmRaise == spc' = "raised" /\ stack' = <<>> /\ UNCHANGED sresult

\* requests.get, raise_for_status or ET.fromstring raises
SmRequestFails ==
    /\ spc = "run" /\ Top.i = 0 /\ ~TopDoc.ok
    /\ SmRaise
    /\ UNCHANGED <<docs, notSitemap>>

\* a regular sitemap: return its URLs
SmUrlset ==
    /\ spc = "run" /\ Top.i = 0 /\ TopDoc.ok /\ TopDoc.sitemap_locs = <<>>
    /\ SmReturn(urlset_urls(TopDoc))
    /\ UNCHANGED <<docs, notSitemap>>

\* a sitemap index: enter the loop over sitemap_locs
SmIndex ==
    /\ spc = "run" /\ Top.i = 0 /\ TopDoc.ok /\ TopDoc.sitemap_locs # <<>>
    /\ stack' = [stack EXCEPT ![Len(stack)].i = 1]
    /\ UNCHANGED <<spc, sresult, docs, notSitemap>>

\* the loop meets a loc without text
SmSkipLoc ==
    /\ spc = "run" /\ Top.i >= 1 /\ Top.i <= Len(TopDoc.sitemap_locs)
    /\ TopDoc.sitemap_locs[Top.i] = ""
    /\ stack' = [stack EXCEPT ![Len(stack)].i = @ + 1]
    /\ UNCHANGED <<spc, sresult, docs, notSitemap>>

\* the loop calls parse_sitemap(loc.text, timeout)
SmRecurse ==
    /\ spc = "run" /\ Top.i >= 1 /\ Top.i <= Len(TopDoc.sitemap_locs)
    /\ TopDoc.sitemap_locs[Top.i] # ""
    /\ Len(stack) < RecursionLimit
    /\ stack' = Append(stack, Frame(TopDoc.sitemap_locs[Top.i]))
    /\ UNCHANGED <<spc, sresult, docs, notSitemap>>

\* the nested call exceeds the recursion limit: RecursionError
SmRecursionError ==
    /\ spc = "run" /\ Top.i >= 1 /\ Top.i <= Len(TopDoc.sitemap_locs)
    /\ TopDoc.sitemap_locs[Top.i] # ""
    /\ Len(stack) >= RecursionLimit
    /\ SmRaise
    /\ UNCHANGED <<docs, notSitemap>>

\* the loop is over: return all_urls
SmIndexReturn ==
    /\ spc = "run" /\ Top.i > Len(TopDoc.sitemap_locs)
    /\ SmReturn(Top.all_urls)
    /\ UNCHANGED <<docs, notSitemap>>

NextSitemap ==
    \/ SmRequestFails \/ SmUrlset \/ SmIndex \/ SmSkipLoc
    \/ SmRecurse \/ SmRecursionError \/ SmIndexReturn

SpecSitemap == InitSitemap /\ [][NextSitemap]_vars

(***************************************************************************)
(* extractor.py: merge_extractions                                         *)
(***************************************************************************)
\* the results merged: empty, one character, and one with a blank line in it
ExtractionTexts == { <<>>, <<"x">>, <<"y", "\n", "\n", "z">> }

SourceIds == { <<"s">>, <<"s", "-", "1">> }

Digits == <<"0", "1", "2", "3", "4", "5", "6", "7", "8", "9">>

\* the decimal digits of n >= 0, as an f-string writes an int
RECURSIVE str(_)
str(n) == IF n < 10 THEN <<Digits[n + 1]>> ELSE str(n \div 10) \o <<Digits[(n % 10) + 1]>>

\* sep.join(parts)
RECURSIVE Join(_, _)
Join(sep, parts) ==
    IF parts = <<>> THEN <<>>
    ELSE IF Len(parts) = 1 THEN parts[1]
    ELSE parts[1] \o sep \o Join(sep, Tail(parts))

\* a variant that counts the sections from one
separator_from_one(sid, i) ==
    <<"<|llms-section-">> \o sid \o <<"-">> \o str(i + 1) \o <<"|>">>

\* f"<|llms-section-{source_id}-{i}|>"
separator(sid, i) == <<"<|llms-section-">> \o sid \o <<"-">> \o str(i) \o <<"|>">>

merge_extractions(es, sid) ==
    IF Len(es) = 1 THEN es[1]
    ELSE Join(<<"\n", "\n">>,
              [k \in 1..Len(es) |-> separator(sid, k - 1) \o <<"\n">> \o es[k]])

InitMerge ==
    /\ extractions \in SeqsUpTo(ExtractionTexts, MaxChunks)
    /\ source_id \in SourceIds
    /\ gpc = "call"
    /\ merged = <<>>
    /\ ChunkIdle /\ MainIdle /\ SitemapIdle /\ CliIdle /\ FetchIdle /\ PromptIdle

Merge ==
    /\ gpc = "call"
    /\ merged' = merge_extractions(extractions, source_id)
    /\ gpc' = "done"
    /\ UNCHANGED <<extractions, source_id, notMerge>>

NextMerge == Merge

SpecMerge == InitMerge /\ [][NextMerge]_vars

(***************************************************************************)
(* main.py: cli, the loop over the sources and the end of the run;         *)
(* config.py: load_sources                                                 *)
(***************************************************************************)
\* the ids of the rows of sources.csv, in file order
RowIds == <<"a", "b", "c", "d", "e">>

\* the files of n rows: each row enabled or not
RowsOf(n) ==
    { r \in [1..n -> [id : {RowIds[k] : k \in 1..n}, enabled : BOOLEAN]] :
          \A k \in 1..n : r[k].id = RowIds[k] }

\* --only: absent, or split at the commas
OnlyLists == { None, <<"b">>, <<"c", "a">> }

\* config.py 36-43: the enabled rows, of the ids of only if it is given
load_sources(rs, only) ==
    SelectSeq(rs, LAMBDA r : r.enabled /\ (Truthy(only) => r.id \in Range(only)))

\* the steps of one source inside the try of the loop: fetch_page,
\* create_chunks, the extraction step (load_prompt included), merge and save
SourceSteps == <<"fetch", "chunk", "extract", "save">>

StepAfter(s) ==
    CASE s = "fetch" -> "chunk" [] s = "chunk" -> "extract"
      [] s = "extract" -> "save" [] OTHER -> "loop"

InitCli ==
    /\ rows \in UNION {RowsOf(n) : n \in 0..MaxSources}
    /\ only_list \in OnlyLists
    /\ output_exists \in BOOLEAN
    /\ dry_run \in BOOLEAN
    /\ project_set \in BOOLEAN
    /\ source_list = <<>>
    /\ lpc = "start"
    /\ source_pos = 1
    /\ attempted = <<>>
    /\ failed = {}
    /\ index_attempted = FALSE /\ index_saved = FALSE
    /\ usage_reported = FALSE /\ client_closed = FALSE
    /\ site_about \in BOOLEAN
    /\ service_called = FALSE
    /\ ChunkIdle /\ MainCoreIdle /\ SitemapIdle /\ MergeIdle /\ FetchIdle /\ PromptIdle

linputs == <<rows, only_list, site_about>>

\* what the steps of cli other than save_markdown leave alone
lfixed == <<linputs, output_exists>>

\* lines 189-196: load the sources; return at once when there is none
LoadSources ==
    /\ lpc = "start"
    /\ source_list' = load_sources(rows, only_list)
    /\ lpc' = IF load_sources(rows, only_list) = <<>> THEN "no_sources" ELSE "loop"
    /\ UNCHANGED <<source_pos, attempted, failed, index_attempted, index_saved,
                   usage_reported, client_closed, lfixed,
                   service_called, notCli>>

\* the loop takes the next source
BeginSource ==
    /\ lpc = "loop" /\ source_pos <= Len(source_list)
    /\ attempted' = Append(attempted, source_list[source_pos].id)
    /\ lpc' = "fetch"
    /\ UNCHANGED <<source_list, source_pos, failed, index_attempted, index_saved,
                   usage_reported, client_closed, lfixed,
                   service_called, notCli>>

\* the step of the source returns: the next step, or the next source;
\* save_markdown makes the directories of the output file (output.py 26);
\* the extraction step of a run that is not dry needs the configuration
StepReturns ==
    /\ lpc \in Range(SourceSteps)
    /\ lpc = "extract" => (dry_run \/ project_set)
    /\ lpc' = StepAfter(lpc)
    /\ source_pos' = IF lpc = "save" THEN source_pos + 1 ELSE source_pos
    /\ output_exists' = (output_exists \/ lpc = "save")
    /\ service_called' = (service_called \/ (lpc = "extract" /\ ~dry_run))
    /\ UNCHANGED <<source_list, attempted, failed, index_attempted, index_saved,
                   usage_reported, client_closed, linputs, notCli>>

\* a variant without the handler: the exception ends the run
StepRaisesUncaught ==
    /\ lpc \in Range(SourceSteps)
    /\ failed' = failed \cup {source_list[source_pos].id}
    /\ lpc' = "crashed"
    /\ output_exists' \in {output_exists, output_exists \/ lpc = "save"}
    /\ service_called' \in
          IF lpc = "extract" /\ ~dry_run /\ project_set
          THEN {service_called, TRUE} ELSE {service_called}
    /\ UNCHANGED <<source_list, source_pos, attempted, index_attempted, index_saved,
                   usage_reported, client_closed, linputs, notCli>>

\* the step raises an Exception: the handler prints it, the loop goes on;
\* save_markdown raises before or after it made the directories
StepRaises ==
    /\ lpc \in Range(SourceSteps)
    /\ failed' = failed \cup {source_list[source_pos].id}
    /\ lpc' = "loop"
    /\ source_pos' = source_pos + 1
    /\ output_exists' \in {output_exists, output_exists \/ lpc = "save"}
    /\ service_called' \in
          IF lpc = "extract" /\ ~dry_run /\ project_set
          THEN {service_called, TRUE} ELSE {service_called}
    /\ UNCHANGED <<source_list, attempted, index_attempted, index_saved,
                   usage_reported, client_closed, linputs, notCli>>

\* the extraction step of a run that is not dry, GOOGLE_CLOUD_PROJECT not
\* set: the first extract_with_ai call of the source reads the configuration
\* and raises ValueError.  On the sequential path the handler of the source
\* takes it and the loop goes on; on the parallel path every call of the
\* source raises it, each result is an error marker, and the source is saved
ExtractWithoutConfig ==
    /\ lpc = "extract" /\ ~dry_run /\ ~project_set
    /\ \/ /\ failed' = failed \cup {source_list[source_pos].id}
          /\ lpc' = "loop"
          /\ source_pos' = source_pos + 1
       \/ /\ lpc' = "save"
          /\ UNCHANGED <<failed, source_pos>>
    /\ UNCHANGED <<source_list, attempted, index_attempted, index_saved,
                   usage_reported, client_closed, lfixed,
                   service_called, notCli>>

\* the loop is over: save_index is called
LoopEnd ==
    /\ lpc = "loop" /\ source_pos > Len(source_list)
    /\ index_attempted' = TRUE
    /\ lpc' = "index"
    /\ UNCHANGED <<source_list, source_pos, attempted, failed, index_saved,
                   usage_reported, client_closed, lfixed,
                   service_called, notCli>>

\* generate_index, whatever --dry-run says: with SITE_ABOUT_URL set and no
\* SITE_DESCRIPTION it calls generate_site_description, whose extract_with_ai
\* call has dry_run=False.  The service is called if the page is fetched, the
\* prompt is loaded and the configuration is there; every exception is taken
\* and gives no description.  The values service_called can have afterwards:
IndexServiceCall ==
    IF site_about /\ project_set THEN {service_called, TRUE} ELSE {service_called}

\* save_index builds the index, writes output_dir/llms.txt and returns
SaveIndexReturns ==
    /\ lpc = "index" /\ output_exists
    /\ index_saved' = TRUE
    /\ lpc' = "usage"
    /\ service_called' \in IndexServiceCall
    /\ UNCHANGED <<source_list, source_pos, attempted, failed, index_attempted,
                   usage_reported, client_closed, lfixed, notCli>>

\* save_index raises: open() fails, as it must when output_dir does not
\* exist; nothing catches it
SaveIndexRaises ==
    /\ lpc = "index"
    /\ lpc' = "crashed"
    /\ service_called' \in IndexServiceCall
    /\ UNCHANGED <<source_list, source_pos, attempted, failed, index_attempted,
                   index_saved, usage_reported, client_closed, lfixed, notCli>>

\* lines 297-300: the usage summary, if not a dry run
UsageSummary ==
    /\ lpc = "usage"
    /\ usage_reported' = ~dry_run
    /\ lpc' = "close"
    /\ UNCHANGED <<source_list, source_pos, attempted, failed, index_attempted,
                   index_saved, client_closed, lfixed,
                   service_called, notCli>>

\* line 303: close_genai_client()
CloseClient ==
    /\ lpc = "close"
    /\ client_closed' = TRUE
    /\ lpc' = "done"
    /\ UNCHANGED <<source_list, source_pos, attempted, failed, index_attempted,
                   index_saved, usage_reported, lfixed,
                   service_called, notCli>>

NextCli ==
    \/ LoadSources \/ BeginSource \/ StepReturns \/ StepRaises
    \/ ExtractWithoutConfig
    \/ LoopEnd \/ SaveIndexReturns \/ SaveIndexRaises
    \/ UsageSummary \/ CloseClient

SpecCli == InitCli /\ [][NextCli]_vars

(***************************************************************************)
(* fetcher.py: fetch_page with its cache, and the rate limiter around the  *)
(* request.  The clock counts whole seconds; the cache file of a key is    *)
(* named by a hash of the key and is modelled by the key.                  *)
(***************************************************************************)
\* the arguments of a fetch_page call; cache_dir is TRUE for a directory
FetchArgs ==
    [url : {RootUrl}, content_selector : Selectors, force : BOOLEAN, cache_dir : BOOLEAN]

\* f"{url}:{content_selector}" if content_selector else url
cache_key(u, selector) ==
    IF Truthy(selector) THEN UrlString(u) \o <<":">> \o selector ELSE UrlString(u)

CacheKeys == {cache_key(a.url, a.content_selector) : a \in FetchArgs}

KeyOf(a) == cache_key(a.url, a.content_selector)

\* response.text of the request number version: the page changes over time
Markup(u, version) == <<"markup of", u, version>>

\* the text taken from the markup, of the selected element or of the page
TextOf(h, selector) == <<"text of", h, selector>>

\* the html and text stored in a cache file and returned by fetch_page
PageEntry(h, selector) == [html |-> h, text |-> TextOf(h, selector)]

\* a variant that reads the cache also when force is set
CacheReadableForced(a) == a.cache_dir

\* 'if cache_dir and not force'
CacheReadable(a) == a.cache_dir /\ ~a.force

NoFetch ==
    [pc |-> "idle", url |-> None, content_selector |-> None,
     force |-> FALSE, cache_dir |-> FALSE]

\* no fetch_page call is running: the next one can begin
BetweenFetches == fcall.pc \in {"idle", "returned", "raised"}

InitFetch ==
    /\ rate_limit_delay \in 0..MaxDelay
    /\ now = 1
    /\ last_request_time = 0
    /\ fcache = [k \in CacheKeys |-> None]
    /\ fcall = NoFetch
    /\ fret = NoOutcome
    /\ ncalls = 0
    /\ requests_made = 0
    /\ sent = <<>>
    /\ ChunkIdle /\ MainIdle /\ SitemapIdle /\ MergeIdle /\ CliIdle /\ PromptIdle

\* fetch_page is called, the cache may be read and holds a file for the key:
\* the stored html and text are returned
FetchCached(a) ==
    /\ BetweenFetches /\ ncalls < MaxFetches
    /\ CacheReadable(a) /\ fcache[KeyOf(a)] # None
    /\ fcall' = [pc |-> "returned", url |-> a.url,
                 content_selector |-> a.content_selector,
                 force |-> a.force, cache_dir |-> a.cache_dir]
    /\ fret' = Returns(fcache[KeyOf(a)])
    /\ ncalls' = ncalls + 1
    /\ UNCHANGED <<rate_limit_delay, now, last_request_time, fcache,
                   requests_made, sent, notFetch>>

\* fetch_page is called and the cache is not read, or holds no file for the
\* key: _fetch_url is called
FetchUncached(a) ==
    /\ BetweenFetches /\ ncalls < MaxFetches
    /\ ~(CacheReadable(a) /\ fcache[KeyOf(a)] # None)
    /\ fcall' = [pc |-> "wrapper", url |-> a.url,
                 content_selector |-> a.content_selector,
                 force |-> a.force, cache_dir |-> a.cache_dir]
    /\ fret' = NoOutcome
    /\ ncalls' = ncalls + 1
    /\ UNCHANGED <<rate_limit_delay, now, last_request_time, fcache,
                   requests_made, sent, notFetch>>

\* the time the wrapper sleeps before the request
sleep_time ==
    LET elapsed == now - last_request_time
    IN  IF elapsed < rate_limit_delay /\ last_request_time > 0
        THEN rate_limit_delay - elapsed ELSE 0

\* the wrapper of rate_limited sleeps if it has to, and requests.get sends the
\* request
SendRequest ==
    /\ fcall.pc = "wrapper"
    /\ now' = now + sleep_time
    /\ requests_made' = requests_made + 1
    /\ sent' = IF Len(sent) = 2 THEN <<sent[2], now'>> ELSE Append(sent, now')
    /\ fcall' = [fcall EXCEPT !.pc = "request"]
    /\ UNCHANGED <<rate_limit_delay, last_request_time, fcache, fret, ncalls, notFetch>>

\* a second passes, between two calls or while the request is out
Tick ==
    /\ fcall.pc # "wrapper" /\ now < MaxTime
    /\ now' = now + 1
    /\ UNCHANGED <<rate_limit_delay, last_request_time, fcache, fcall, fret, ncalls,
                   requests_made, sent, notFetch>>

\* requests.get returns a response with a good status: the wrapper notes the
\* time, the text is taken from the markup, the cache file is written if
\* there is a cache directory, and html and text are returned
RequestReturns ==
    /\ fcall.pc = "request"
    /\ last_request_time' = now
    /\ LET entry == PageEntry(Markup(fcall.url, requests_made), fcall.content_selector)
       IN  /\ fcache' = IF fcall.cache_dir
                        THEN [fcache EXCEPT ![KeyOf(fcall)] = entry] ELSE fcache
           /\ fret' = Returns(entry)
    /\ fcall' = [fcall EXCEPT !.pc = "returned"]
    /\ UNCHANGED <<rate_limit_delay, now, ncalls, requests_made, sent, notFetch>>

\* requests.get returns a response with an error status: the wrapper notes
\* the time, raise_for_status raises
RequestStatusError ==
    /\ fcall.pc = "request"
    /\ last_request_time' = now
    /\ fret' = Raises("HTTPError")
    /\ fcall' = [fcall EXCEPT !.pc = "raised"]
    /\ UNCHANGED <<rate_limit_delay, now, fcache, ncalls, requests_made, sent, notFetch>>

\* requests.get raises (no connection, timeout): the exception passes through
\* the wrapper, which does not reach its assignment to _last_request_time
RequestRaises ==
    /\ fcall.pc = "request"
    /\ fret' = Raises("ConnectionError")
    /\ fcall' = [fcall EXCEPT !.pc = "raised"]
    /\ UNCHANGED <<rate_limit_delay, now, last_request_time, fcache, ncalls,
                   requests_made, sent, notFetch>>

NextFetch ==
    \/ \E a \in FetchArgs : FetchCached(a)
    \/ \E a \in FetchArgs : FetchUncached(a)
    \/ SendRequest \/ Tick
    \/ RequestReturns \/ RequestStatusError \/ RequestRaises

SpecFetch == InitFetch /\ [][NextFetch]_vars

(***************************************************************************)
(* extractor.py: the prompt of extract_with_ai and its truncation          *)
(***************************************************************************)
\* "{content}"
PlaceholderText == <<"{", "c", "o", "n", "t", "e", "n", "t", "}">>

\* "\n\n[... content truncated ...]"
TruncationMarker ==
    <<"\n", "\n", "[", ".", ".", ".", " ", "c", "o", "n", "t", "e", "n", "t", " ",
      "t", "r", "u", "n", "c", "a", "t", "e", "d", " ", ".", ".", ".", "]">>

\* s.replace(old, new): every occurrence of old, from left to right
RECURSIVE Replace(_, _, _)
Replace(s, old, new) ==
    IF Len(s) < Len(old) THEN s
    ELSE IF SubSeq(s, 1, Len(old)) = old
         THEN new \o Replace(SubSeq(s, Len(old) + 1, Len(s)), old, new)
         ELSE <<Head(s)>> \o Replace(Tail(s), old, new)

\* the prompt files tried: some characters, then the placeholder or nothing
Templates ==
    LET Lead(k) == [j \in 1..k |-> "T"]
    IN  {Lead(k) \o PlaceholderText : k \in 0..MaxTemplate}
            \cup {Lead(k) : k \in 0..MaxTemplate}

ContentAlphabet ==
    <<"a", "b", "c", "d", "e", "f", "g", "h", "i", "j", "k", "l", "m", "n", "o", "p">>

\* the contents tried: n characters, no two neighbours alike
Contents ==
    {[j \in 1..n |-> ContentAlphabet[((j - 1) % Len(ContentAlphabet)) + 1]] :
        n \in 0..MaxContent}

\* lines 117-118: prompt_template.replace("{content}", content)
FullPrompt(template, c) == Replace(template, PlaceholderText, c)

\* lines 129-132: the content is cut to what the template leaves of the
\* length allowed, the marker is added, and the prompt is built again
TruncatedPrompt(template, c, max_length) ==
    LET available == max_length - Len(template)
        truncated_content == SliceTo(c, available) \o TruncationMarker
    IN  Replace(template, PlaceholderText, truncated_content)

InitPrompt ==
    /\ prompt_template \in Templates
    /\ raw_content \in Contents
    /\ max_content_length \in 0..MaxLength
    /\ ppc = "call"
    /\ sent_prompt = <<>>
    /\ truncated = FALSE
    /\ ChunkIdle /\ MainIdle /\ SitemapIdle /\ MergeIdle /\ CliIdle /\ FetchIdle

\* the prompt is not longer than max_content_length: it is sent as it is
PromptFits ==
    /\ ppc = "call"
    /\ Len(FullPrompt(prompt_template, raw_content)) <= max_content_length
    /\ sent_prompt' = FullPrompt(prompt_template, raw_content)
    /\ truncated' = FALSE
    /\ ppc' = "sent"
    /\ UNCHANGED <<prompt_template, raw_content, max_content_length, notPrompt>>

\* the prompt is longer than max_content_length: the truncated one is sent
PromptTruncated ==
    /\ ppc = "call"
    /\ Len(FullPrompt(prompt_template, raw_content)) > max_content_length
    /\ sent_prompt' = TruncatedPrompt(prompt_template, raw_content, max_content_length)
    /\ truncated' = TRUE
    /\ ppc' = "sent"
    /\ UNCHANGED <<prompt_template, raw_content, max_content_length, notPrompt>>

NextPrompt == PromptFits \/ PromptTruncated

SpecPrompt == InitPrompt /\ [][NextPrompt]_vars

(***************************************************************************)
(* Properties of the extraction step, checked under SpecExtract            *)
(***************************************************************************)
ParallelReturned == mpc = "returned" /\ parallel /\ in_n > 1

\* C1: for every completion order of the concurrent calls, the list returned
\* by process_chunks_parallel is as long as the chunk list and its i-th element
\* is the outcome of the call made for the i-th chunk.
C1_OrderPreserved ==
    ParallelReturned =>
        /\ Len(results) = in_n
        /\ \A i \in Indices :
              /\ call[i].pc = "done" /\ call[i].content = ChunkContent(i)
              /\ results[i + 1] = IF call[i].out.kind = "raised"
                                  THEN ErrorMarker(call[i].out.value[1])
                                  ELSE call[i].out.value
              /\ dry_run => results[i + 1] = DryRunPlaceholder(ChunkContent(i))

\* the calls of the last batch completed against the order of their indices
C1_Witness ==
    /\ ParallelReturned /\ in_n >= 3 /\ ~dry_run
    /\ \E k \in 1..(Len(collected) - 1) : collected[k] > collected[k + 1]
    /\ \E i \in Indices : results[i + 1] = ResponseText(Prompt(ChunkContent(i)))

\* C2: when the call of one chunk raises, its slot holds the error marker; no
\* other call of the batch or of a later batch is cancelled or skipped, and
\* every other slot holds the result of its own call.
C2_FailureIsolated ==
    ParallelReturned =>
        \A i \in Indices :
            call[i].out.kind = "raised" =>
                /\ results[i + 1] = ErrorMarker(call[i].out.value[1])
                /\ \A j \in Indices \ {i} :
                      /\ call[j].pc = "done"
                      /\ call[j].out.kind = "returned" => results[j + 1] = call[j].out.value

\* a call of the first batch raised, another call of that batch and a call of a
\* later batch returned the answer of the service
C2_Witness ==
    /\ ParallelReturned
    /\ \E i, j \in 0..(batch_size - 1), k \in batch_size..(in_n - 1) :
          /\ i # j
          /\ call[i].out.kind = "raised"
          /\ results[j + 1] = ResponseText(Prompt(ChunkContent(j)))
          /\ results[k + 1] = ResponseText(Prompt(ChunkContent(k)))

\* C3: the extraction step yields one result string per chunk in the parallel
\* and in the sequential path alike; no exception raised during the extraction
\* of a chunk leaves the step.  (The statement of the claim; in the sequential
\* path an exception of get_genai_client leaves the loop.)
C3_Original ==
    /\ mpc # "raised"
    /\ mpc = "returned" =>
          (Len(results) = in_n /\ \A k \in 1..in_n : results[k] # PyNone)

(***************************************************************************)
(* Properties of create_chunks, checked under SpecChunk                    *)
(***************************************************************************)
Returned == cpc = "done"

AllFetched == \A i \in 1..Len(fetchLog) : fetchLog[i][2]

\* the lines of a chunk's content
LinesOf(c) == Split(c.content, "\n", <<>>)

\* C4: for every strategy and every non-empty text, create_chunks returns a
\* non-empty chunk sequence, whatever the outcomes of the fetches.
\* (The statement of the claim, for size limits >= 1; chunk_sitemap returns
\* [] when no URL is left or no page could be fetched.)
C4_Original == (Returned /\ NonEmptyText(text) /\ chunk_size >= 1) => chunks # <<>>

\* C5: within one create_chunks call all returned chunk ids are pairwise
\* distinct.  (The statement of the claim, for size limits >= 1;
\* chunk_alphabetical repeats ids.)
C5_Original ==
    (Returned /\ chunk_size >= 1) => \A i, j \in 1..Len(chunks) : i # j => chunks[i].id # chunks[j].id

\* C6: alphabetical strategy: no two lines with the same leading letter end up
\* in two different chunks.  (The statement of the claim, for size limits >= 1
\* and the letters taken as they are written; the code opens a new chunk before any line that starts
\* with a letter once chunk_size lines are in the open chunk.)
C6_Original ==
    (Returned /\ chunk_method = "alphabetical" /\ chunk_size >= 1) =>
        \A i, j \in 1..Len(chunks) : i < j =>
            \A k \in 1..Len(LinesOf(chunks[i])), l \in 1..Len(LinesOf(chunks[j])) :
                LET a == LinesOf(chunks[i])[k]
                    b == LinesOf(chunks[j])[l]
                IN  ~(a # <<>> /\ b # <<>> /\ IsAlpha(a[1]) /\ a[1] = b[1])

\* ---- C7
PaginatedN == Cardinality(page_urls(html, url))

\* chunk 1 is the root page; the following chunks are pages of pagination
\* links, in strictly increasing lexicographic order of their URLs, and no link
\* left out sorts before a link taken
PaginatedShape ==
    /\ chunks[1].url = url /\ chunks[1].content = JoinNL(text)
    /\ \A i \in 2..Len(chunks) :
          /\ chunks[i].url \in page_urls(html, url)
          /\ chunks[i].content = PageText(chunks[i].url)
          /\ \A j \in 2..Len(chunks) : i < j => LexLess(chunks[i].url, chunks[j].url)
          /\ \A u \in page_urls(html, url) \ {chunks[j].url : j \in 2..Len(chunks)} :
                LexLess(chunks[i].url, u)

C8_Original ==
    chunk_method = "recursive" =>
        /\ Len(fetchLog) <= Max(0, chunk_size - 1)
        /\ \A i \in 1..Len(fetchLog) : fetchLog[i][1] = internal_links[i]

\* ---- C9
\* the same-host http(s) links in scope, other than the root itself
InScopeSameHost ==
    { html[i].abs : i \in { j \in 1..Len(html) :
          /\ html[j].http
          /\ Truthy(content_selector) => html[j].inContent
          /\ Netloc(html[j].abs) = Netloc(url)
          /\ html[j].abs # url } }

PatternGiven == Truthy(include_pattern) \/ Truthy(exclude_pattern)

RootPath == RStrip(Path(url), "/")

\* C9: recursive link filtering.  With an include or exclude pattern the glob
\* filter alone decides which same-host links are kept; with neither pattern
\* nor selector only links whose path is the root path or lies under it are
\* kept; with a selector and no pattern every same-host link in the selector's
\* scope is kept, also outside the root path.
C9_Filtering ==
    (chunk_method = "recursive" /\ cpc # "call") =>
        /\ PatternGiven =>
             Range(internal_links) =
               { u \in InScopeSameHost :
                   /\ Truthy(include_pattern) => AnyMatch(u, include_pattern)
                   /\ Truthy(exclude_pattern) => ~AnyMatch(u, exclude_pattern) }
        /\ (~PatternGiven /\ ~Truthy(content_selector)) =>
             Range(internal_links) =
               { u \in InScopeSameHost :
                   Path(u) = RootPath \/ StartsWith(Path(u), RootPath \o <<"/">>) }
        /\ (~PatternGiven /\ Truthy(content_selector)) =>
             Range(internal_links) = InScopeSameHost

\* a selector, no pattern, and a kept link outside the root path
C9_Witness ==
    /\ chunk_method = "recursive" /\ cpc # "call"
    /\ ~PatternGiven /\ Truthy(content_selector)
    /\ <<"h", "/", "a", "b">> \in Range(internal_links)

\* C10: recursive strategy: no sub-chunk is fetched for a link identical to
\* the root URL, nor for a link of another host.
C10_NoRootNoForeignHost ==
    chunk_method = "recursive" =>
        /\ \A i \in 1..Len(fetchLog) :
              fetchLog[i][1] # url /\ Netloc(fetchLog[i][1]) = Netloc(url)
        /\ \A i \in 2..Len(chunks) :
              chunks[i].url # url /\ Netloc(chunks[i].url) = Netloc(url)

\* the markup links to the root and to another host, and a sub-page was fetched
C10_Witness ==
    /\ chunk_method = "recursive" /\ Returned /\ Len(chunks) >= 2
    /\ \E i \in 1..Len(html) : html[i].abs = url
    /\ \E i \in 1..Len(html) : Netloc(html[i].abs) # Netloc(url) /\ html[i].http

\* ---- C11
\* the URLs of the fetch_page calls made so far, in the order of the calls
FetchedUrls == [i \in 1..Len(fetchLog) |-> fetchLog[i][1]]

\* the URLs of the fetches that succeeded, in the order of the calls
OkUrls ==
    LET ok == SelectSeq(fetchLog, LAMBDA e : e[2])
    IN  [i \in 1..Len(ok) |-> ok[i][1]]

ChunkUrls(from) == [i \in 1..(Len(chunks) - from + 1) |-> chunks[i + from - 1].url]

SitemapFiltered == filter_urls(sitemap.urls, include_pattern, exclude_pattern)

\* C11: sitemap strategy: the filtered URL list is cut to its first size_limit
\* entries when size_limit > 0 and is not cut when size_limit <= 0; every
\* remaining URL is fetched, in list order, and the chunks appear in that order.
C11_SitemapLimit ==
    (Returned /\ chunk_method = "sitemap") =>
        /\ FetchedUrls =
              IF chunk_size > 0
              THEN SubSeq(SitemapFiltered, 1, Min(chunk_size, Len(SitemapFiltered)))
              ELSE SitemapFiltered
        /\ ChunkUrls(1) = OkUrls

\* a size_limit of 0 or less, and two or more filtered URLs, all fetched
C11_Witness ==
    /\ Returned /\ chunk_method = "sitemap" /\ chunk_size <= 0
    /\ Len(SitemapFiltered) >= 2 /\ Len(chunks) = Len(SitemapFiltered)

\* ---- C14
FetchingMethod == chunk_method \in {"paginated", "recursive", "sitemap"}

\* C14: paginated, recursive and sitemap strategy: a failed fetch of one
\* additional page raises nothing; every candidate page is fetched all the
\* same, and the chunks of the pages fetched with success are returned in
\* their original relative order.
C14_FetchFailureSkipped ==
    FetchingMethod =>
        /\ cpc = "raised" => (fetchLog = <<>> /\ chunk_method = "sitemap" /\ ~sitemap.ok)
        /\ cpc = "fetch" => (pos <= Len(todo) /\ FetchedUrls = SubSeq(todo, 1, pos - 1))
        /\ Returned =>
              /\ FetchedUrls = todo
              /\ ChunkUrls(IF chunk_method = "sitemap" THEN 1 ELSE 2) = OkUrls

\* the first fetch failed, a later one succeeded, and the call returned
C14_Witness ==
    /\ FetchingMethod /\ Returned /\ Len(fetchLog) >= 2
    /\ ~fetchLog[1][2] /\ fetchLog[Len(fetchLog)][2]

(***************************************************************************)
(* Properties of extract_with_ai, checked under SpecExtract                *)
(***************************************************************************)
\* C16: an extraction call retries only after a rate-limit (429) failure,
\* calls the service at most MAX_RETRIES times, and when the last allowed
\* attempt is rate-limited too it returns an error placeholder: it neither
\* raises nor tries again.
C16_RetryOnlyOnRateLimit ==
    \A i \in Indices :
        LET l == call[i].log
        IN  /\ Len(l) <= MAX_RETRIES
            /\ \A k \in 1..(Len(l) - 1) : l[k] = "429"
            /\ (l # <<>> /\ l[Len(l)] = "429") =>
                  IF Len(l) = MAX_RETRIES
                  THEN /\ call[i].pc = "done"
                       /\ call[i].out = Returns(ErrorPlaceholder("429 RESOURCE_EXHAUSTED"))
                  ELSE call[i].pc = "attempt"

\* a call ended after MAX_RETRIES >= 2 rate-limited attempts
C16_Witness ==
    \E i \in Indices :
        /\ MAX_RETRIES >= 2 /\ call[i].pc = "done"
        /\ Len(call[i].log) = MAX_RETRIES
        /\ \A k \in 1..MAX_RETRIES : call[i].log[k] = "429"

\* C17: a failure of the service call other than a rate limit ends the
\* extraction call after that attempt with an error placeholder; it is not
\* retried, nothing is raised, and the usage ledger counts no call but those
\* that were answered.
C17_OtherFailureEndsCall ==
    /\ \A i \in Indices :
          \A k \in 1..Len(call[i].log) :
              call[i].log[k] = "fail" =>
                  /\ k = Len(call[i].log)
                  /\ call[i].pc = "done"
                  /\ call[i].out = Returns(ErrorPlaceholder("message of the exception"))
    /\ ledger.calls <=
          Cardinality({i \in Indices :
                          call[i].log # <<>> /\ call[i].log[Len(call[i].log)] = "ok"})

\* a call failed after a rate-limited attempt, and another call was answered
C17_Witness ==
    \E i, j \in Indices :
        /\ call[i].log = <<"429", "fail">> /\ call[i].pc = "done"
        /\ call[j].log = <<"ok">> /\ ledger.calls = 1

\* C18: with dry_run, extract_with_ai returns the placeholder that states the
\* number of characters of the content, calls no service, creates no client
\* and leaves the usage ledger as it was; the step returns one placeholder per
\* chunk.
C18_DryRun ==
    dry_run =>
        /\ clients_made = 0 /\ genai_client = 0
        /\ ledger = [calls |-> 0, prompt |-> 0, completion |-> 0]
        /\ \A i \in Indices :
              /\ call[i].log = <<>>
              /\ call[i].pc \notin {"create", "attempt"}
              /\ call[i].pc = "done" =>
                    /\ call[i].out.kind = "returned"
                    /\ call[i].out.value = DryRunPlaceholder(ChunkContent(i))
                    /\ call[i].out.value[3] = i + 1
        /\ mpc = "returned" =>
              results = [k \in 1..in_n |-> DryRunPlaceholder(ChunkContent(k - 1))]

\* a dry run over two chunks has returned its two placeholders
C18_Witness ==
    /\ dry_run /\ in_n = 2 /\ mpc = "returned" /\ Len(results) = 2
    /\ ledger.calls = 0

(***************************************************************************)
(* Properties of parse_sitemap, checked under SpecSitemap                  *)
(***************************************************************************)
\* C12: parse_sitemap returns a deduplicated list: no URL appears twice in
\* its result, also when the sitemap is an index of several sitemaps.  (The
\* statement of the claim; the code removes no duplicate.)
C12_Original ==
    spc = "done" =>
        \A i, j \in 1..Len(sresult) : i # j => sresult[i] # sresult[j]

RECURSIVE ConcatAll(_)
ConcatAll(ss) == IF ss = <<>> THEN <<>> ELSE Head(ss) \o ConcatAll(Tail(ss))

\* the URL list of the sitemap at name, at most depth documents deep
RECURSIVE UrlListOf(_, _)
UrlListOf(name, depth) ==
    LET d == docs[name]
        refs == SelectSeq(d.sitemap_locs, LAMBDA x : x # "")
    IN  IF depth = 0 THEN <<>>
        ELSE IF d.sitemap_locs = <<>> THEN SelectSeq(d.url_locs, LAMBDA x : x # "")
        ELSE ConcatAll([k \in 1..Len(refs) |-> UrlListOf(refs[k], depth - 1)])

\* C13: on a sitemap index parse_sitemap returns the concatenation, in the
\* order of the references, of the URL lists of the referenced sitemaps, each
\* in its own order; a URL of two sub-sitemaps appears once for each.
C13_IndexConcatenation ==
    (spc = "done" /\ docs["root"].sitemap_locs # <<>>) =>
        LET refs == SelectSeq(docs["root"].sitemap_locs, LAMBDA x : x # "")
        IN  sresult = ConcatAll([k \in 1..Len(refs) |-> UrlListOf(refs[k], RecursionLimit)])

\* an index of s1 and s2, which both list the URL a
C13_Witness ==
    /\ spc = "done" /\ docs["root"].sitemap_locs = <<"s1", "s2">>
    /\ docs["s1"].url_locs = <<"a", "b">> /\ docs["s1"].sitemap_locs = <<>>
    /\ docs["s2"].url_locs = <<"a">>
    /\ sresult = <<"a", "b", "a">>

(***************************************************************************)
(* Properties of merge_extractions, checked under SpecMerge                *)
(***************************************************************************)
\* the separator tag of the result at zero-based position k
SectionTag(k) ==
    <<"<|llms-section-">> \o source_id
        \o <<"-", <<"0", "1", "2", "3", "4", "5", "6", "7", "8", "9">>[k + 1], "|>">>

\* the k-th section (k from 1): tag, line break, result
Section(k) == SectionTag(k - 1) \o <<"\n">> \o extractions[k]

\* the number of characters of merged before the k-th section
RECURSIVE SectionStart(_)
SectionStart(k) == IF k = 1 THEN 0 ELSE SectionStart(k - 1) + Len(Section(k - 1)) + 2

\* C15: merge_extractions returns a single result unchanged; two or more
\* results are returned in input order, joined by a blank line, each preceded
\* by the tag <|llms-section-{source_id}-{i}|> with its zero-based position i.
C15_Merge ==
    gpc = "done" =>
        LET n == Len(extractions)
        IN  /\ n = 1 => merged = extractions[1]
            /\ n >= 2 =>
                  /\ Len(merged) = SectionStart(n) + Len(Section(n))
                  /\ \A k \in 1..n :
                        SubSeq(merged, SectionStart(k) + 1,
                               SectionStart(k) + Len(Section(k))) = Section(k)
                  /\ \A k \in 2..n :
                        SubSeq(merged, SectionStart(k) - 1, SectionStart(k)) = <<"\n", "\n">>

\* three results, one of them with a blank line in it, were merged
C15_Witness ==
    /\ gpc = "done" /\ Len(extractions) = 3
    /\ extractions[2] = <<"y", "\n", "\n", "z">>
    /\ Len(merged) > 3

(***************************************************************************)
(* Properties of the run of cli, checked under SpecCli                     *)
(***************************************************************************)
\* the ids of the rows the run is to process: enabled and, with --only, named
\* by it; in file order
EnabledIds ==
    LET sel == SelectSeq(rows, LAMBDA r :
                   r.enabled /\ (only_list = None \/ \E k \in 1..Len(only_list) : only_list[k] = r.id))
    IN  [k \in 1..Len(sel) |-> sel[k].id]

LoopOver == lpc \in {"index", "usage", "close", "done", "crashed"}

\* C19: an exception of the fetch, chunk, extract or save step of one source
\* is caught and the run goes on with the next source: every enabled source
\* is attempted exactly once, in configuration order, whatever became of the
\* sources before it.
C19_EverySourceAttempted ==
    lpc # "start" =>
        /\ Len(attempted) <= Len(EnabledIds)
        /\ attempted = SubSeq(EnabledIds, 1, Len(attempted))
        /\ failed \subseteq Range(attempted)
        /\ lpc = "crashed" => index_attempted
        /\ LoopOver => attempted = EnabledIds

\* the first source raised and a later source was processed without failure
C19_Witness ==
    /\ lpc = "done" /\ Len(attempted) >= 2
    /\ attempted[1] \in failed /\ attempted[Len(attempted)] \notin failed

RunOver == lpc \in {"done", "crashed"}

\* C20: every run that starts processing sources, whatever sources fail (also
\* when all of them fail), goes on to attempt index generation and then usage
\* reporting.  (The statement of the claim, for the runs that are no dry run
\* and have ended; save_index raises when no source has made the output
\* directory, and the usage report is never reached.)
C20_Original == (RunOver /\ ~dry_run) => (index_attempted /\ usage_reported)

(***************************************************************************)
(* Properties of filter_urls and of the recursive strategy, checked under  *)
(* SpecChunk                                                               *)
(***************************************************************************)
\* the claimed test for one URL: it matches an include alternative (or no
\* include pattern is given) and it matches no exclude alternative
KeptByFilter(u) ==
    /\ Truthy(include_pattern) => AnyMatch(u, include_pattern)
    /\ Truthy(exclude_pattern) => ~AnyMatch(u, exclude_pattern)

\* the sitemap strategy ran filter_urls on the sitemap's URLs and did not cut
\* the result
FilterApplied ==
    /\ chunk_method = "sitemap" /\ cpc \in {"fetch", "done"}
    /\ sitemap.ok /\ chunk_size <= 0

\* C23: filter_urls returns, in input order, exactly the input URLs that match
\* at least one include alternative (every URL when no include pattern is
\* given) and match no exclude alternative; a URL that matches both an include
\* and an exclude alternative is dropped.
C23_FilterUrls == FilterApplied => todo = SelectSeq(sitemap.urls, KeptByFilter)

\* both patterns given, a URL that matches both was dropped, one was kept
C23_Witness ==
    /\ FilterApplied
    /\ Truthy(include_pattern) /\ Truthy(exclude_pattern)
    /\ \E i \in 1..Len(sitemap.urls) :
          /\ AnyMatch(sitemap.urls[i], include_pattern)
          /\ AnyMatch(sitemap.urls[i], exclude_pattern)
    /\ Len(todo) >= 1 /\ Len(todo) < Len(sitemap.urls)

\* C30: the recursive strategy expands one level only: the first chunk is the
\* root at depth 0, every other chunk has depth 1, and every page fetched by
\* the loop is a link of the root page, fetched at most once; no link of a
\* sub-page is fetched.
C30_OneLevel ==
    (chunk_method = "recursive" /\ cpc \in {"fetch", "done"}) =>
        /\ Len(chunks) >= 1
        /\ chunks[1].url = url /\ chunks[1].metadata.depth = 0
        /\ \A i \in 2..Len(chunks) : chunks[i].metadata.depth = 1
        /\ Len(fetchLog) <= Len(internal_links)
        /\ \A i \in 1..Len(fetchLog) : FetchedUrls[i] = internal_links[i]

\* the recursive strategy returned after fetching two sub-pages
C30_Witness ==
    /\ chunk_method = "recursive" /\ cpc = "done"
    /\ Len(chunks) >= 3 /\ Len(fetchLog) >= 2

(***************************************************************************)
(* Properties of the parallel coordinator, the usage ledger and the client *)
(* of the service, checked under SpecExtract                               *)
(***************************************************************************)
\* the run takes the parallel path and the executor can be made
Coordinated == parallel /\ in_n > 1 /\ workers > 0

\* the batch of the chunk at index i
BatchOf(i) == i \div batch_size

Started(i) == call[i].pc \notin {"idle", "queued"}

\* C24: batches run in sequence: while a call for a chunk of a later batch is
\* submitted or running, every call of every earlier batch has finished.
C24_BatchesInSequence ==
    Coordinated =>
        \A i, j \in Indices :
            (BatchOf(j) < BatchOf(i) /\ call[i].pc # "idle") => call[j].pc = "done"

\* a call of the second batch runs after two calls of the first batch
C24_Witness ==
    /\ Coordinated /\ batch_size >= 2
    /\ \E i \in Indices : BatchOf(i) = 1 /\ call[i].pc = "attempt"
    /\ \A j \in Indices : BatchOf(j) = 0 => call[j].pc = "done"

\* C25: at every moment of the parallel coordinator at most max_workers
\* extraction calls are in flight, also when batch_size exceeds max_workers.
C25_InFlightBounded == Coordinated => Cardinality(InFlight) <= workers

\* a batch larger than the pool: the pool is full and a call waits
C25_Witness ==
    /\ Coordinated /\ ~dry_run /\ batch_size > workers
    /\ Cardinality(InFlight) = workers /\ queue # <<>>

\* ceil(n / b)
Ceil(n, b) == (n + b - 1) \div b

\* C26: n chunks in batches of b: while batch number k (from 0) runs, k pacing
\* delays have been made, the batch starts at chunk k * b and holds the next b
\* chunks, or those that are left in the last batch, and the calls submitted so
\* far are those of the chunks before the end of the batch; at the return
\* ceil(n / b) - 1 delays have been made and there are n results in the order
\* of the chunks.
C26_BatchesAndDelays ==
    Coordinated =>
        /\ mpc \in {"batch", "wait"} =>
              /\ batch_start = sleeps * batch_size
              /\ sleeps < Ceil(in_n, batch_size)
              /\ Cardinality(Batch) =
                    IF sleeps < Ceil(in_n, batch_size) - 1
                    THEN batch_size ELSE in_n - sleeps * batch_size
              /\ Cardinality(Batch) \in 1..batch_size
        /\ mpc = "wait" =>
              /\ {i \in Indices : call[i].pc # "idle"} = 0..(batch_end - 1)
              /\ {i \in Indices : call[i].pc \notin {"idle", "done"}} \subseteq Batch
        /\ mpc = "returned" =>
              /\ sleeps = Ceil(in_n, batch_size) - 1
              /\ Len(results) = in_n
              /\ \A i \in Indices : results[i + 1] = CollectValue(call[i].out)

\* 7 chunks, batches of 3, 2 workers: the run returned after two delays
C26_Witness ==
    /\ Coordinated /\ mpc = "returned"
    /\ in_n = 7 /\ batch_size = 3 /\ workers = 2
    /\ sleeps = 2 /\ Len(results) = 7

\* the calls of the step whose last attempt was answered by the service
Succeeded == {i \in Indices : call[i].pc = "done" /\ call[i].log # <<>>
                                /\ call[i].log[Len(call[i].log)] = "ok"}

PromptChars(i) == Len(Prompt(call[i].content))

\* the prompt characters of the calls in S, summed
RECURSIVE SumPromptChars(_)
SumPromptChars(S) ==
    IF S = {} THEN 0
    ELSE LET x == CHOOSE y \in S : TRUE IN PromptChars(x) + SumPromptChars(S \ {x})

\* (C27 as stated: after the step the ledger entry of the source holds one
\* call and the prompt characters of every successful call.  It fails: two
\* workers that both find no entry for the source each store a new entry, and
\* the second entry replaces the first with the counts added to it.)
C27_Original ==
    (mpc = "returned" /\ ~dry_run) =>
        /\ ledger.calls = Cardinality(Succeeded)
        /\ ledger.prompt = SumPromptChars(Succeeded)

\* (C28 as stated: the client of the service is created at most once in a
\* run.  It fails: two workers that both read _genai_client as None each
\* build a client, and the second assignment replaces the first client.)
C28_Original == clients_made <= 1

(***************************************************************************)
(* Properties of the configuration of the service, checked under SpecCli   *)
(***************************************************************************)
\* (C21 as stated: a run that is not dry and lacks the configuration of the
\* service stops before any source is fetched, chunked or extracted.  It
\* fails: nothing reads the configuration before the first extraction call of
\* the first source, whose ValueError the handler of the source takes, and the
\* run goes on through every source to its end.)
C21_Original ==
    (~dry_run /\ ~project_set) => (lpc \notin Range(SourceSteps) /\ lpc # "done")

(***************************************************************************)
(* Properties of fetch_page and of the rate limiter, checked under         *)
(* SpecFetch                                                               *)
(***************************************************************************)
\* this step is the begin of a fetch_page call
CallBegins == ncalls' = ncalls + 1

\* this step is the return of a fetch_page call that made a request
RequestEnds == fcall.pc = "request" /\ fcall'.pc = "returned"

\* C22: fetch_page with a cache directory.  Without force, and with an entry
\* cached for the URL and selector of the call, the call returns the cached
\* html and text and no request is sent.  With force the call does not end at
\* the cache: it goes on to the request, returns what the request gave, and
\* writes that to the cache entry of its URL and selector.
C22_CacheAndForce ==
    [][ /\ (CallBegins /\ fcall'.cache_dir /\ ~fcall'.force
              /\ fcache[KeyOf(fcall')] # None) =>
                 /\ fcall'.pc = "returned"
                 /\ fret' = Returns(fcache[KeyOf(fcall')])
                 /\ requests_made' = requests_made /\ sent' = sent
                 /\ fcache' = fcache
        /\ (CallBegins /\ fcall'.cache_dir /\ fcall'.force) =>
                 /\ fcall'.pc = "wrapper" /\ fret' = NoOutcome
        /\ (fcall.pc = "wrapper" /\ fcall.force) =>
                 /\ fcall'.pc = "request" /\ requests_made' = requests_made + 1
        /\ (RequestEnds /\ fcall.cache_dir /\ fcall.force) =>
                 /\ fret' = Returns(PageEntry(Markup(fcall.url, requests_made),
                                              fcall.content_selector))
                 /\ fcache'[KeyOf(fcall)] = fret'.value
      ]_vars

\* the third call, without force, returns what the second request gave: the
\* entry was written by one call and written again by a later one
C22_Witness ==
    /\ ncalls = 3 /\ requests_made = 2
    /\ fcall.pc = "returned" /\ fcall.cache_dir /\ ~fcall.force
    /\ fret = Returns(PageEntry(Markup(fcall.url, 2), fcall.content_selector))
    /\ \A k \in CacheKeys : k # KeyOf(fcall) => fcache[k] = None

\* (C29 as stated: any two consecutive requests are sent at least the
\* rate-limit delay apart, whatever the outcome of the earlier one.  It fails:
\* when the earlier request raises, the wrapper does not note its time, and
\* the next request is sent at once.)
C29_Original == Len(sent) = 2 => sent[2] - sent[1] >= rate_limit_delay

(***************************************************************************)
(* Properties of the alphabetical strategy, checked under SpecChunk        *)
(***************************************************************************)
\* the stripped non-blank lines of the input text, in their order
StrippedLines(t) ==
    SelectSeq([i \in 1..Len(t) |-> Strip(t[i])], LAMBDA l : l # <<>>)

\* the contents of the returned chunks, joined with newlines
JoinedContents == JoinNL([i \in 1..Len(chunks) |-> chunks[i].content])

\* (C31 as stated: for every text and every size limit the alphabetical
\* strategy returns chunks whose contents, joined with newlines, are the
\* stripped non-blank lines of the text.  It fails: the call raises IndexError
\* when the open chunk holds no line that starts with a letter and is closed
\* before a line that does.)
C31_Original ==
    (chunk_method = "alphabetical" /\ cpc \in {"done", "raised"}) =>
        /\ cpc = "done"
        /\ JoinedContents = JoinNL(StrippedLines(text))

(***************************************************************************)
(* Termination of parse_sitemap, checked under SpecSitemap                 *)
(***************************************************************************)
\* (C32 as stated, through its variant: the documents being fixed, a call that
\* terminates never starts a nested call for a document that one of its
\* enclosing calls is still expanding, since the nested call would read the
\* same document and start the same nested call again.  It fails:
\* parse_sitemap keeps no record of the documents it is in, an index that
\* names itself is entered again and again, and only the recursion limit of
\* the interpreter ends the call, with RecursionError.)
C32_Original ==
    \A i, j \in 1..Len(stack) : i # j => stack[i].sitemap_url # stack[j].sitemap_url

(***************************************************************************)
(* Properties of a dry run, checked under SpecCli                          *)
(***************************************************************************)
\* (C33 as stated: in a run started with --dry-run the service is not called
\* at any point, index generation included.  It fails: save_index runs in a
\* dry run too, and the site description it generates comes from an
\* extract_with_ai call with dry_run=False.)
C33_Original == dry_run => ~service_called

(***************************************************************************)
(* Properties of the truncation of the prompt, checked under SpecPrompt    *)
(***************************************************************************)
\* (C34 as stated: a prompt longer than max_content_length is sent truncated,
\* no longer than max_content_length, with a prefix of the content in the
\* place of the content.  It fails: the content is cut to max_content_length
\* less the length of the template, placeholder included, and the marker is
\* added after the cut, so the prompt sent is longer than allowed.)
C34_Original ==
    (ppc = "sent" /\ truncated) =>
        /\ Len(sent_prompt) <= max_content_length
        /\ \E k \in 0..Len(raw_content) :
              sent_prompt = Replace(prompt_template, PlaceholderText,
                                    SubSeq(raw_content, 1, k) \o TruncationMarker)

====
